---- MODULE Spec2Model ----
(***************************************************************************)
(* Model of the segment merger, src/indexer/merger.rs (IndexMerger).       *)
(*                                                                         *)
(* A segment is a record [id, docs, checkpoints, compressor,               *)
(* store_missing]: id names the segment, checkpoints and compressor        *)
(* describe its document store, store_missing is the number of live        *)
(* documents whose payload the store fails to yield (0 in a sound store),  *)
(* and                                                                     *)
(* docs is its sequence of documents; the document at index d+1 has old    *)
(* doc id d.  A                                                            *)
(* document carries its liveness bit (alive), its value of the u64 sort    *)
(* field (val), for every term of the text field its absolute position     *)
(* list (terms; the empty list when the term does not occur) and the set   *)
(* of its facet terms (facets).  multi holds its values of the             *)
(* multi-valued u64 fast field.                                            *)
(* IndexMerger::open and SerializableSegment::write run as a pipeline of   *)
(* steps; pc is the position in that pipeline.                             *)
(***************************************************************************)
EXTENDS Integers, Sequences, FiniteSets, TLC

VARIABLES
    segments,           \* input: candidate segments handed to open
    sort_by,            \* input: index_settings.sort_by_field: "none", "asc", "desc"
    pc,                 \* position in open / write
    readers,            \* IndexMerger.readers
    max_doc,            \* IndexMerger.max_doc
    doc_id_mapping,     \* write: Option<Vec<(DocId, SegmentReaderWithOrdinal)>>
    merged_doc_id_map,  \* write_postings_for_field: Vec<Vec<Option<DocId>>>
    postings_log,       \* calls received by the inverted index serializer
    term_ord_mappings,  \* write_postings: HashMap<Field, TermOrdinalMapping>
    facet_idx,          \* offsets column of the facet fast field
    facet_vals,         \* values column of the facet fast field
    store_out,          \* payloads received by the store writer
    fieldnorms_out,     \* fieldnorm ids received by the fieldnorms serializer, per field
    fieldnorm_readers,  \* FieldNormReaders opened on the written fieldnorms
    fast_out,           \* columns opened on the fast field serializer
    history,            \* components called on the segment serializer, in order
    faults,             \* input: whether the collaborators may return errors
    result,             \* value returned by write
    seg_num_docs,       \* admission only: num_docs of the candidate segments
    admitted            \* admission only: outcome of open

vars == <<segments, sort_by, pc, readers, max_doc, doc_id_mapping,
          merged_doc_id_map, postings_log, term_ord_mappings, facet_idx, facet_vals,
          store_out, fieldnorms_out, fieldnorm_readers, fast_out, history, faults,
          result, seg_num_docs, admitted>>

----------------------------------------------------------------------------
(* Bounds of the input families.                                           *)

MaxSize == 7        \* size of the candidate segments of a merge (ordering family)
PostMaxSize == 6    \* size of the candidate segments of a merge (postings family)
NumTerms == 2       \* terms are 1..NumTerms, in byte order
MaxAdmitSegs == 3   \* candidate segments per merge (admission family)
FailMaxSize == 4    \* size of the candidate segments of a merge (fault family)
StoreMaxSize == 5    \* size of the candidate segments of a merge (truncated-store family)
StackMaxSize == 8    \* size of the candidate segments of a merge (store-shape family)
TermsMaxSize == 7    \* size of the candidate segments of a merge (term family)
SortedTermsMaxSize == 6    \* size of the candidate segments of a merge (sorted-term family)

(* Program constants.                                                      *)

MAX_DOC_LIMIT_HI == 32768      \* common::MAX_DOC_LIMIT = 1 << 31, in units of 2^16

Terms == 1..NumTerms
Orders == {"none", "asc", "desc"}

----------------------------------------------------------------------------
(* Generic helpers.                                                        *)

Min2(a, b) == IF a <= b THEN a ELSE b
Max2(a, b) == IF a >= b THEN a ELSE b

RECURSIVE SumSeq(_)
SumSeq(s) == IF s = <<>> THEN 0 ELSE Head(s) + SumSeq(Tail(s))

RECURSIVE FlattenSeq(_)
FlattenSeq(ss) == IF ss = <<>> THEN <<>> ELSE Head(ss) \o FlattenSeq(Tail(ss))

Range(s) == {s[i] : i \in 1..Len(s)}

----------------------------------------------------------------------------
(* Segment readers (interface of core::SegmentReader).                     *)

\* reader.max_doc()
MaxDocOf(seg) == Len(seg.docs)

\* reader.is_deleted(doc) / delete_bitset.is_alive(doc)
IsAlive(seg, d) == seg.docs[d + 1].alive

\* reader.doc_ids_alive(): live old doc ids, ascending
DocIdsAlive(seg) ==
    SelectSeq([i \in 1..Len(seg.docs) |-> i - 1], LAMBDA d : seg.docs[d + 1].alive)

\* reader.num_docs() / segment.meta().num_docs()
NumDocs(seg) == Len(DocIdsAlive(seg))

\* reader.delete_bitset() is Some iff the segment has deletes
HasDeletes(seg) == \E i \in 1..Len(seg.docs) : ~seg.docs[i].alive

\* sort field accessor: get(doc), min_value(), max_value(); the stored
\* min / max of a column cover every document, deleted ones included
SortVal(seg, d) == seg.docs[d + 1].val

MinValue(seg) ==
    CHOOSE v \in {seg.docs[i].val : i \in 1..Len(seg.docs)} :
        \A i \in 1..Len(seg.docs) : v <= seg.docs[i].val

MaxValue(seg) ==
    CHOOSE v \in {seg.docs[i].val : i \in 1..Len(seg.docs)} :
        \A i \in 1..Len(seg.docs) : v >= seg.docs[i].val

----------------------------------------------------------------------------
(* IndexMerger::open.                                                      *)

\* A u32 is held as two 16-bit limbs [hi, lo], its value hi * 2^16 + lo,
\* so that sums beyond the u32 range stay representable.
LIMB == 256 * 256

Limbs(n) == [hi |-> n \div LIMB, lo |-> n % LIMB]

\* exact sum, hi not reduced
WideAdd(a, b) ==
    LET lo == a.lo + b.lo
    IN  [hi |-> a.hi + b.hi + (lo \div LIMB), lo |-> lo % LIMB]

\* the loop of open over the counts of the candidate segments:
\* max_doc += reader.num_docs() on a u32, for the segments with
\* num_docs() > 0.  An addition that overflows aborts under overflow
\* checks (debug profile) and wraps without them (release profile);
\* wrapping is what wrap = TRUE computes, and "overflow" is reported when
\* wrap = FALSE and some addition overflows.
RECURSIVE AccumulateMaxDoc(_, _, _)
AccumulateMaxDoc(counts, acc, wrap) ==
    IF counts = <<>> THEN [overflow |-> FALSE, max_doc |-> acc]
    ELSE LET n == Head(counts)
             next == IF n > 0 THEN WideAdd(acc, Limbs(n)) ELSE acc
         IN  IF next.hi >= LIMB /\ ~wrap
                THEN [overflow |-> TRUE, max_doc |-> acc]
                ELSE AccumulateMaxDoc(Tail(counts),
                         [hi |-> next.hi % LIMB, lo |-> next.lo], wrap)

\* readers.push(reader) only for segments with num_docs() > 0
OpenReaders(segs) == SelectSeq(segs, LAMBDA seg : NumDocs(seg) > 0)

\* sort_readers_by_min_sort_field: Vec::sort_by_key is a stable sort, on
\* min_value for Asc and on Reverse(min_value) for Desc; a reader goes
\* after the readers already placed whose key is not greater than its own
RECURSIVE InsertReader(_, _, _)
InsertReader(sorted, r, order) ==
    IF sorted = <<>> THEN <<r>>
    ELSE IF (IF order = "asc" THEN MinValue(r) < MinValue(Head(sorted))
                              ELSE MinValue(r) > MinValue(Head(sorted)))
            THEN <<r>> \o sorted
            ELSE <<Head(sorted)>> \o InsertReader(Tail(sorted), r, order)

RECURSIVE SortReadersByMinSortField(_, _)
SortReadersByMinSortField(rs, order) ==
    IF rs = <<>> THEN <<>>
    ELSE InsertReader(SortReadersByMinSortField(SubSeq(rs, 1, Len(rs) - 1), order),
                      rs[Len(rs)], order)

----------------------------------------------------------------------------
(* is_disjunct_and_sorted_on_sort_property.                                *)

\* variant of IsDisjunctAndSortedOnSortProperty: the minimum of a reader
\* compared with the minimum of the next, the maximum with the maximum
IsSortedOnMinOnly(rs, order) ==
    \A i \in 1..(Len(rs) - 1) :
        IF order = "asc"
           THEN MinValue(rs[i]) <= MinValue(rs[i + 1])
           ELSE MaxValue(rs[i]) >= MaxValue(rs[i + 1])

IsDisjunctAndSortedOnSortProperty(rs, order) ==
    \A i \in 1..(Len(rs) - 1) :
        IF order = "asc"
           THEN MaxValue(rs[i]) <= MinValue(rs[i + 1])
           ELSE MinValue(rs[i]) >= MaxValue(rs[i + 1])

----------------------------------------------------------------------------
(* generate_doc_id_mapping: itertools kmerge_by over the live doc ids of   *)
(* every reader.  A heap entry is a HeadTail: the reader ordinal ord and   *)
(* the index k, in doc_ids_alive(), of its head.  Heap positions are       *)
(* 0-based as in the code; At(heap, i) is heap[i].                         *)

At(heap, i) == heap[i + 1]

Swap(heap, i, j) ==
    [heap EXCEPT ![i + 1] = heap[j + 1], ![j + 1] = heap[i + 1]]

HeadDoc(rs, e) == DocIdsAlive(rs[e.ord + 1])[e.k]

\* variant of KMergeLess: the comparisons of the two orders exchanged
KMergeLessReversed(rs, order, a, b) ==
    LET val1 == SortVal(rs[a.ord + 1], HeadDoc(rs, a))
        val2 == SortVal(rs[b.ord + 1], HeadDoc(rs, b))
    IN  IF order = "asc" THEN val1 > val2 ELSE val1 < val2

\* the closure handed to kmerge_by
KMergeLess(rs, order, a, b) ==
    LET val1 == SortVal(rs[a.ord + 1], HeadDoc(rs, a))
        val2 == SortVal(rs[b.ord + 1], HeadDoc(rs, b))
    IN  IF order = "asc" THEN val1 < val2 ELSE val1 > val2

RECURSIVE SiftDown(_, _, _, _)
SiftDown(rs, order, heap, pos) ==
    LET n == Len(heap)
        child == 2 * pos + 1
    IN  IF child + 1 < n
           THEN LET c == IF KMergeLess(rs, order, At(heap, child + 1), At(heap, child))
                            THEN child + 1 ELSE child
                IN  IF ~KMergeLess(rs, order, At(heap, c), At(heap, pos))
                       THEN heap
                       ELSE SiftDown(rs, order, Swap(heap, pos, c), c)
           ELSE IF child + 1 = n /\ KMergeLess(rs, order, At(heap, child), At(heap, pos))
                   THEN Swap(heap, pos, child)
                   ELSE heap

RECURSIVE HeapifyFrom(_, _, _, _)
HeapifyFrom(rs, order, heap, i) ==
    IF i < 0 THEN heap
    ELSE HeapifyFrom(rs, order, SiftDown(rs, order, heap, i), i - 1)

\* kmerge_by: one HeadTail per non-empty iterator, then heapify
KMergeInit(rs, order) ==
    LET all == [i \in 1..Len(rs) |-> [ord |-> i - 1, k |-> 1]]
        heap == SelectSeq(all, LAMBDA e : NumDocs(rs[e.ord + 1]) > 0)
    IN  HeapifyFrom(rs, order, heap, (Len(heap) \div 2) - 1)

\* variant of KMergeAdvance: the root is removed even when its tail still
\* holds documents
KMergeAdvanceDropTail(rs, order, heap) ==
    LET n == Len(heap)
        removed == IF n = 1 THEN <<>> ELSE <<heap[n]>> \o SubSeq(heap, 2, n - 1)
    IN  SiftDown(rs, order, removed, 0)

\* KMergeBy::next: take the head of heap[0], refill it from its tail or
\* swap_remove(0) when the tail is exhausted, then sift_down(0)
KMergeAdvance(rs, order, heap) ==
    LET root == heap[1]
        n == Len(heap)
        refilled ==
            IF root.k < NumDocs(rs[root.ord + 1])
               THEN [heap EXCEPT ![1] = [ord |-> root.ord, k |-> root.k + 1]]
               ELSE IF n = 1 THEN <<>>
                    ELSE <<heap[n]>> \o SubSeq(heap, 2, n - 1)
    IN  SiftDown(rs, order, refilled, 0)

RECURSIVE KMergeCollect(_, _, _, _)
KMergeCollect(rs, order, heap, acc) ==
    IF heap = <<>> THEN acc
    ELSE KMergeCollect(rs, order, KMergeAdvance(rs, order, heap),
                       Append(acc, [doc |-> HeadDoc(rs, heap[1]), ord |-> heap[1].ord]))

GenerateDocIdMapping(rs, order) ==
    KMergeCollect(rs, order, KMergeInit(rs, order), <<>>)

None == [is_some |-> FALSE, entries |-> <<>>]
Some(m) == [is_some |-> TRUE, entries |-> m]

\* variant of ComputeDocIdMapping: a mapping is built whenever a sort field
\* is configured
ComputeDocIdMappingAlwaysSorts(rs, order) ==
    IF order # "none" THEN Some(GenerateDocIdMapping(rs, order)) ELSE None

\* write, lines 1053-1064: the mode decision
ComputeDocIdMapping(rs, order) ==
    IF order # "none"
       THEN IF IsDisjunctAndSortedOnSortProperty(rs, order)
               THEN None
               ELSE Some(GenerateDocIdMapping(rs, order))
       ELSE None

----------------------------------------------------------------------------
(* Schema: field 1 is a text field indexed with frequencies and positions, *)
(* field 2 a hierarchical facet (indexed without positions, its term       *)
(* ordinals stored in a multi-valued fast field), field 3 the single-      *)
(* valued u64 fast field the index may be sorted by, field 4 a             *)
(* multi-valued u64 fast field, field 5 a bytes fast field.                *)

TextField == 1
FacetField == 2
SortField == 3
MultiField == 4
BytesField == 5
Schema == <<"text", "facet", "u64", "u64s", "bytes">>
IndexedFields == <<TextField, FacetField>>

\* FieldNormsWriter::fields_with_fieldnorm: the indexed fields
FieldsWithFieldnorm == IndexedFields

\* does the document contain term t in the field
DocHasTerm(doc, field, t) ==
    IF Schema[field] = "text" THEN doc.terms[t] # <<>> ELSE t \in doc.facets

(* Inverted index reader of one segment and field.                         *)

\* terms(): the term dictionary, in byte order; a term's old ordinal is
\* its index in it, counted from 0
TermDict(seg, field) ==
    SelectSeq([t \in 1..NumTerms |-> t],
              LAMBDA t : \E i \in 1..Len(seg.docs) : DocHasTerm(seg.docs[i], field, t))

TermOrdOf(seg, field, t) ==
    (CHOOSE i \in 1..Len(TermDict(seg, field)) : TermDict(seg, field)[i] = t) - 1

\* read_postings_from_terminfo: the docs of the term, ascending, deleted
\* ones included
PostingDocs(seg, field, t) ==
    SelectSeq([i \in 1..Len(seg.docs) |-> i - 1],
              LAMBDA d : DocHasTerm(seg.docs[d + 1], field, t))

\* segment_postings.doc_freq() / doc_freq_given_deletes(delete_bitset)
DocFreq(seg, field, t) == Len(PostingDocs(seg, field, t))

DocFreqGivenDeletes(seg, field, t) ==
    Len(SelectSeq(PostingDocs(seg, field, t), LAMBDA d : IsAlive(seg, d)))

\* segment_postings.positions(): absolute positions, empty for a field
\* indexed without positions
PostingPositions(seg, field, t, d) ==
    IF Schema[field] = "text" THEN seg.docs[d + 1].terms[t] ELSE <<>>

\* segment_postings.term_freq()
PostingTermFreq(seg, field, t, d) ==
    IF Schema[field] = "text" THEN Len(seg.docs[d + 1].terms[t]) ELSE 1

\* facet fast field reader: get_vals(doc), the old term ordinals of the
\* document's facets
FacetVals(seg, d) ==
    LET ts == SelectSeq([t \in 1..NumTerms |-> t],
                        LAMBDA t : t \in seg.docs[d + 1].facets)
    IN  [i \in 1..Len(ts) |-> TermOrdOf(seg, FacetField, ts[i])]

\* single-valued u64 fast field reader (the sort field): get(doc)
FastVal(seg, d) == seg.docs[d + 1].val

\* multi-valued u64 fast field reader: get_vals(doc)
MultiVals(seg, d) == seg.docs[d + 1].multi

\* bytes fast field reader: get_bytes(doc); the document holds its sort
\* value followed by one byte per term
GetBytes(seg, d) == <<seg.docs[d + 1].val>> \o seg.docs[d + 1].multi

\* number of tokens of the document in the field
FieldTokens(doc, field) ==
    IF Schema[field] = "text"
       THEN SumSeq([t \in 1..NumTerms |-> Len(doc.terms[t])])
       ELSE Cardinality(doc.facets)

\* FieldNormReader::fieldnorm_to_id / id_to_fieldnorm: the one-byte code of
\* a field length, exact below 40 and in steps of 2 from there
FieldnormToId(n) == IF n < 40 THEN n ELSE Min2(40 + ((n - 40) \div 2), 255)
IdToFieldnorm(id) == IF id < 40 THEN id ELSE 40 + 2 * (id - 40)

\* fieldnorms_reader.fieldnorm_id(doc)
FieldnormId(seg, field, d) == FieldnormToId(FieldTokens(seg.docs[d + 1], field))

\* inverted_index(field).total_num_tokens(): the count stored when the
\* segment was written, deleted documents included
StoredTotalNumTokens(seg, field) ==
    SumSeq([i \in 1..Len(seg.docs) |-> FieldTokens(seg.docs[i], field)])

\* store reader: the raw payload of a document
StoredPayload(seg, d) == <<seg.id, d>>

\* store_reader.iter_raw(delete_bitset): payloads of the live documents in
\* ascending old doc id
IterRaw(seg) ==
    [i \in 1..(NumDocs(seg) - seg.store_missing) |->
        StoredPayload(seg, DocIdsAlive(seg)[i])]

----------------------------------------------------------------------------
(* DeltaComputer.  The buffer is kept as its length len and the prefix     *)
(* data that has been written so far; every entry beyond data is the 0 it  *)
(* was created or resized with.                                            *)

DELTA_BUFFER_LEN == 512

DeltaComputerNew == [len |-> DELTA_BUFFER_LEN, data |-> <<>>]

BufferAt(buffer, i) == IF i <= Len(buffer.data) THEN buffer.data[i] ELSE 0

\* variant of ComputeDelta: the running position starts at the first
\* position instead of 0
ComputeDeltaFromFirst(buffer, positions) ==
    LET n == Len(positions)
        newlen == IF n > buffer.len THEN n ELSE buffer.len
        written == [i \in 1..n |->
                       positions[i] - (IF i = 1 THEN positions[1] ELSE positions[i - 1])]
        newdata == [i \in 1..Max2(n, Len(buffer.data)) |->
                       IF i <= n THEN written[i] ELSE buffer.data[i]]
        newbuf == [len |-> newlen, data |-> newdata]
    IN  [buffer |-> newbuf,
         slice |-> [i \in 1..n |-> BufferAt(newbuf, i)]]

\* variant of ComputeDelta: the slice returned is everything the buffer
\* holds, not its first positions.len() entries
ComputeDeltaWholeBuffer(buffer, positions) ==
    LET n == Len(positions)
        newlen == IF n > buffer.len THEN n ELSE buffer.len
        written == [i \in 1..n |->
                       positions[i] - (IF i = 1 THEN 0 ELSE positions[i - 1])]
        newdata == [i \in 1..Max2(n, Len(buffer.data)) |->
                       IF i <= n THEN written[i] ELSE buffer.data[i]]
        newbuf == [len |-> newlen, data |-> newdata]
    IN  [buffer |-> newbuf, slice |-> newdata]

\* compute_delta: the buffer after the call and the slice it returns
ComputeDelta(buffer, positions) ==
    LET n == Len(positions)
        newlen == IF n > buffer.len THEN n ELSE buffer.len
        written == [i \in 1..n |->
                       positions[i] - (IF i = 1 THEN 0 ELSE positions[i - 1])]
        newdata == [i \in 1..Max2(n, Len(buffer.data)) |->
                       IF i <= n THEN written[i] ELSE buffer.data[i]]
        newbuf == [len |-> newlen, data |-> newdata]
    IN  [buffer |-> newbuf,
         slice |-> [i \in 1..n |-> BufferAt(newbuf, i)]]

----------------------------------------------------------------------------
(* compute_total_num_tokens.                                               *)

\* The array count: [usize; 256] is kept as a function on the fieldnorm ids
\* that were counted; every other entry is the 0 it was created with.

\* lines 45-48: count[fieldnorm_id] += 1 for the live documents of a segment
RECURSIVE CountFieldnormIds(_, _, _, _)
CountFieldnormIds(seg, field, alive, count) ==
    IF alive = <<>> THEN count
    ELSE LET id == FieldnormId(seg, field, Head(alive))
         IN  CountFieldnormIds(seg, field, Tail(alive),
                 IF id \in DOMAIN count THEN [count EXCEPT ![id] = @ + 1]
                                        ELSE count @@ (id :> 1))

\* lines 54-61: the sum of count * id_to_fieldnorm(fieldnorm_ord)
RECURSIVE WeightedSum(_, _)
WeightedSum(count, ids) ==
    IF ids = {} THEN 0
    ELSE LET id == CHOOSE x \in ids : TRUE
         IN  count[id] * IdToFieldnorm(id) + WeightedSum(count, ids \ {id})

\* lines 40-52: the loop over the readers; acc carries total_tokens and count
RECURSIVE AccumulateTokens(_, _, _, _)
AccumulateTokens(rs, field, i, acc) ==
    IF i > Len(rs) THEN acc
    ELSE AccumulateTokens(rs, field, i + 1,
             IF HasDeletes(rs[i])
                THEN [acc EXCEPT !.count =
                         CountFieldnormIds(rs[i], field, DocIdsAlive(rs[i]), @)]
                ELSE [acc EXCEPT !.total_tokens =
                         @ + StoredTotalNumTokens(rs[i], field)])

\* variant of ComputeTotalNumTokens: the stored counts summed whatever the
\* deletes
ComputeTotalNumTokensStoredOnly(rs, field) ==
    SumSeq([i \in 1..Len(rs) |-> StoredTotalNumTokens(rs[i], field)])

ComputeTotalNumTokens(rs, field) ==
    LET acc == AccumulateTokens(rs, field, 1,
                   [total_tokens |-> 0, count |-> [id \in {} |-> 0]])
    IN  acc.total_tokens + WeightedSum(acc.count, DOMAIN acc.count)

----------------------------------------------------------------------------
(* write_fieldnorms.                                                       *)

\* FieldNormReaders::get_field: the fieldnorm ids of the field, none when
\* the field has no entry
GetField(frs, field) == IF field \in 1..Len(frs) THEN frs[field] ELSE <<>>

----------------------------------------------------------------------------
(* write_postings_for_field.                                               *)

NONE_DOC == -1     \* Option<DocId>::None in merged_doc_id_map

\* lines 807-821: invert the doc id mapping
RECURSIVE InvertMapping(_, _, _)
InvertMapping(entries, new_doc_id, map) ==
    IF new_doc_id >= Len(entries) THEN map
    ELSE LET e == entries[new_doc_id + 1]
         IN  InvertMapping(entries, new_doc_id + 1,
                           [map EXCEPT ![e.ord + 1][e.doc + 1] = new_doc_id])

\* variant of StackSegment: the counter also advances on deleted documents
RECURSIVE StackSegmentCountingDeleted(_, _, _, _)
StackSegmentCountingDeleted(seg, doc_id, counter, local) ==
    IF doc_id >= MaxDocOf(seg) THEN [map |-> local, max_doc |-> counter]
    ELSE IF ~IsAlive(seg, doc_id)
            THEN StackSegmentCountingDeleted(seg, doc_id + 1, counter + 1,
                                             Append(local, NONE_DOC))
            ELSE StackSegmentCountingDeleted(seg, doc_id + 1, counter + 1,
                                             Append(local, counter))

\* lines 823-834: scan one segment, numbering its live documents from
\* the running counter
RECURSIVE StackSegment(_, _, _, _)
StackSegment(seg, doc_id, counter, local) ==
    IF doc_id >= MaxDocOf(seg) THEN [map |-> local, max_doc |-> counter]
    ELSE IF ~IsAlive(seg, doc_id)
            THEN StackSegment(seg, doc_id + 1, counter, Append(local, NONE_DOC))
            ELSE StackSegment(seg, doc_id + 1, counter + 1, Append(local, counter))

RECURSIVE StackReaders(_, _, _, _)
StackReaders(rs, i, counter, map) ==
    IF i > Len(rs) THEN map
    ELSE LET r == StackSegment(rs[i], 0, counter, <<>>)
         IN  StackReaders(rs, i + 1, r.max_doc, Append(map, r.map))

MergedDocIdMap(rs, mapping) ==
    IF mapping.is_some
       THEN InvertMapping(mapping.entries, 0,
                [i \in 1..Len(rs) |-> [d \in 1..MaxDocOf(rs[i]) |-> NONE_DOC]])
       ELSE StackReaders(rs, 1, 0, <<>>)

\* TermOrdinalMapping::new
TermOrdinalMappingNew(max_term_ords) ==
    [i \in 1..Len(max_term_ords) |-> [o \in 1..max_term_ords[i] |-> 0]]

\* TermOrdinalMapping::register_from_to
RegisterFromTo(tom, segment_ord, from_ord, to_ord) ==
    [tom EXCEPT ![segment_ord + 1][from_ord + 1] = to_ord]

\* TermMerger: the segments whose term stream is at term t, in segment
\* ordinal order
MatchingSegments(rs, field, t) ==
    SelectSeq([i \in 1..Len(rs) |-> i - 1],
              LAMBDA ord : t \in Range(TermDict(rs[ord + 1], field)))

Event(op, field, term, doc, tf, pos, n) ==
    [op |-> op, field |-> field, term |-> term, doc |-> doc, tf |-> tf,
     pos |-> pos, n |-> n]

RECURSIVE InsertByDoc(_, _)
InsertByDoc(sorted, x) ==
    IF sorted = <<>> THEN <<x>>
    ELSE IF x.doc < Head(sorted).doc THEN <<x>> \o sorted
         ELSE <<Head(sorted)>> \o InsertByDoc(Tail(sorted), x)

\* variant of SortByDocId: the buffer is emitted in the order it was filled
SortByDocIdSkipped(buf) == buf

\* doc_id_and_positions.sort_unstable_by_key(doc_id)
RECURSIVE SortByDocId(_)
SortByDocId(buf) ==
    IF buf = <<>> THEN <<>>
    ELSE InsertByDoc(SortByDocId(SubSeq(buf, 1, Len(buf) - 1)), buf[Len(buf)])

\* lines 916-944: walk the postings of one segment.  st carries the
\* serializer log, the sorted-mode buffer doc_id_and_positions and the
\* delta computer.
RECURSIVE WalkPostings(_, _, _, _, _, _, _, _)
WalkPostings(seg, field, t, old_to_new, is_sorted, docs, i, st) ==
    IF i > Len(docs) THEN st
    ELSE LET doc == docs[i]
             remapped == old_to_new[doc + 1]
             term_freq == PostingTermFreq(seg, field, t, doc)
             positions == PostingPositions(seg, field, t, doc)
             delta == ComputeDelta(st.delta, positions)
             st2 == IF remapped = NONE_DOC THEN st
                    ELSE IF is_sorted
                         THEN [st EXCEPT !.buf = Append(@,
                                   [doc |-> remapped, tf |-> term_freq, pos |-> positions])]
                         ELSE [st EXCEPT !.delta = delta.buffer,
                                         !.log = Append(@, Event("write_doc", field, t,
                                                    remapped, term_freq, delta.slice, 0))]
         IN  WalkPostings(seg, field, t, old_to_new, is_sorted, docs, i + 1, st2)

\* lines 911-945: the segments containing the term, in order
RECURSIVE WalkSegments(_, _, _, _, _, _, _, _)
WalkSegments(rs, field, t, map, is_sorted, containing, i, st) ==
    IF i > Len(containing) THEN st
    ELSE LET ord == containing[i]
             seg == rs[ord + 1]
         IN  WalkSegments(rs, field, t, map, is_sorted, containing, i + 1,
                 WalkPostings(seg, field, t, map[ord + 1], is_sorted,
                              PostingDocs(seg, field, t), 1, st))

\* variant of EmitSorted: the buffer is not cleared
EmitSortedKeepingBuffer(field, t, st) ==
    LET sorted == SortByDocId(st.buf)
    IN  [st EXCEPT
           !.log = @ \o [i \in 1..Len(sorted) |->
                           Event("write_doc", field, t, sorted[i].doc,
                                 sorted[i].tf, sorted[i].pos, 0)]]

\* lines 946-952: emit the sorted buffer, positions passed as they were
\* buffered, then clear it
EmitSorted(field, t, st) ==
    LET sorted == SortByDocId(st.buf)
    IN  [st EXCEPT
           !.log = @ \o [i \in 1..Len(sorted) |->
                           Event("write_doc", field, t, sorted[i].doc,
                                 sorted[i].tf, sorted[i].pos, 0)],
           !.buf = <<>>]

\* variant of SegmentDocFreq: the stored frequency, whatever the deletes
SegmentDocFreqIgnoringDeletes(seg, field, t) == DocFreq(seg, field, t)

\* lines 880-884
SegmentDocFreq(seg, field, t) ==
    IF HasDeletes(seg) THEN DocFreqGivenDeletes(seg, field, t)
                       ELSE DocFreq(seg, field, t)

\* variant of RegisterAll: only the segments in which the term has a live
\* document are registered
RECURSIVE RegisterContaining(_, _, _, _, _, _)
RegisterContaining(rs, field, t, matching, to_ord, tom) ==
    IF matching = <<>> THEN tom
    ELSE RegisterContaining(rs, field, t, Tail(matching), to_ord,
             IF SegmentDocFreq(rs[Head(matching) + 1], field, t) > 0
                THEN RegisterFromTo(tom, Head(matching),
                         TermOrdOf(rs[Head(matching) + 1], field, t), to_ord)
                ELSE tom)

RECURSIVE RegisterAll(_, _, _, _, _, _)
RegisterAll(rs, field, t, matching, to_ord, tom) ==
    IF matching = <<>> THEN tom
    ELSE RegisterAll(rs, field, t, Tail(matching), to_ord,
             RegisterFromTo(tom, Head(matching),
                            TermOrdOf(rs[Head(matching) + 1], field, t), to_ord))

\* one iteration of the loop over merged_terms, lines 867-956
MergeTerm(rs, field, t, map, is_sorted, st) ==
    LET matching == MatchingSegments(rs, field, t)
        containing == SelectSeq(matching,
                          LAMBDA ord : SegmentDocFreq(rs[ord + 1], field, t) > 0)
        total_doc_freq ==
            SumSeq([i \in 1..Len(containing) |->
                       SegmentDocFreq(rs[containing[i] + 1], field, t)])
    IN  IF matching = <<>> \/ total_doc_freq = 0 THEN st
        ELSE LET to_term_ord == st.num_terms
                 st1 == [st EXCEPT
                           !.log = Append(@, Event("new_term", field, t, 0, 0, <<>>,
                                                   total_doc_freq)),
                           !.num_terms = @ + 1,
                           !.tom = IF Schema[field] = "facet"
                                      THEN RegisterAll(rs, field, t, matching,
                                                       to_term_ord, @)
                                      ELSE @]
                 st2 == WalkSegments(rs, field, t, map, is_sorted, containing, 1, st1)
                 st3 == IF is_sorted THEN EmitSorted(field, t, st2) ELSE st2
             IN  [st3 EXCEPT !.log = Append(@, Event("close_term", field, t, 0, 0,
                                                     <<>>, 0))]

RECURSIVE MergeTerms(_, _, _, _, _, _)
MergeTerms(rs, field, t, map, is_sorted, st) ==
    IF t > NumTerms THEN st
    ELSE MergeTerms(rs, field, t + 1, map, is_sorted,
                    MergeTerm(rs, field, t, map, is_sorted, st))

\* write_postings_for_field: the serializer calls of the field (new_field
\* carries the fieldnorm reader in pos and total_num_tokens in n) and its
\* term ordinal mapping
WritePostingsForField(rs, field, fieldnorm_reader, mapping) ==
    LET map == MergedDocIdMap(rs, mapping)
        total_num_tokens == ComputeTotalNumTokens(rs, field)
        st0 == [log |-> <<Event("new_field", field, 0, 0, 0, fieldnorm_reader,
                                total_num_tokens)>>,
                num_terms |-> 0,
                tom |-> TermOrdinalMappingNew(
                            [i \in 1..Len(rs) |-> Len(TermDict(rs[i], field))]),
                buf |-> <<>>,
                delta |-> DeltaComputerNew]
        st == MergeTerms(rs, field, 1, map, mapping.is_some, st0)
    IN  [log |-> Append(st.log, Event("close", field, 0, 0, 0, <<>>, 0)),
         tom |-> st.tom]

\* variant of WritePostingsLog: the indexed fields taken last to first
WritePostingsLogLastFieldFirst(rs, frs, mapping) ==
    FlattenSeq([i \in 1..Len(IndexedFields) |->
                   WritePostingsForField(rs, IndexedFields[Len(IndexedFields) + 1 - i],
                       GetField(frs, IndexedFields[Len(IndexedFields) + 1 - i]),
                       mapping).log])

\* write_postings: every indexed field, in schema order
WritePostingsLog(rs, frs, mapping) ==
    FlattenSeq([i \in 1..Len(IndexedFields) |->
                   WritePostingsForField(rs, IndexedFields[i],
                       GetField(frs, IndexedFields[i]), mapping).log])

----------------------------------------------------------------------------
(* The order in which a stage visits the source documents: the doc id      *)
(* mapping when there is one, else the readers in order and doc_ids_alive  *)
(* of each.                                                                *)

\* variant of StackOrder: the live documents of a reader in descending
\* old doc id
StackOrderDescending(rs) ==
    FlattenSeq([i \in 1..Len(rs) |->
                   LET alive == DocIdsAlive(rs[i])
                   IN  [k \in 1..Len(alive) |->
                           [doc |-> alive[Len(alive) + 1 - k], ord |-> i - 1]]])

StackOrder(rs) ==
    FlattenSeq([i \in 1..Len(rs) |->
                   LET alive == DocIdsAlive(rs[i])
                   IN  [k \in 1..Len(alive) |-> [doc |-> alive[k], ord |-> i - 1]]])

\* variant of SourceDocs: the stacking order whatever the mapping
SourceDocsStacked(rs, mapping) == StackOrder(rs)

SourceDocs(rs, mapping) ==
    IF mapping.is_some THEN mapping.entries ELSE StackOrder(rs)

\* write_fieldnorms: the data handed to serialize_field, per field
WriteFieldnormsData(rs, mapping) ==
    [f \in 1..Len(FieldsWithFieldnorm) |->
        LET src == SourceDocs(rs, mapping)
        IN  [i \in 1..Len(src) |->
                FieldnormId(rs[src[i].ord + 1], FieldsWithFieldnorm[f], src[i].doc)]]

----------------------------------------------------------------------------
(* write_hierarchical_facet_field.                                         *)

MaxOfSet(S) == CHOOSE m \in S : \A x \in S : x <= m
MinOfSet(S) == CHOOSE m \in S : \A x \in S : m <= x

\* variant of MaxTermOrd: only the mapping of the first segment is looked at
MaxTermOrdFirstSegment(tom) ==
    LET ords == UNION {Range(tom[i]) : i \in 1..Min2(1, Len(tom))}
    IN  IF ords = {} THEN 0 ELSE MaxOfSet(ords)

\* TermOrdinalMapping::max_term_ord
MaxTermOrd(tom) ==
    LET ords == UNION {Range(tom[i]) : i \in 1..Len(tom)}
    IN  IF ords = {} THEN 0 ELSE MaxOfSet(ords)

\* write_1_n_fast_field_idx_generic, second pass: the offsets column
RECURSIVE WriteIdx(_, _, _, _, _)
WriteIdx(rs, src, i, offset, out) ==
    IF i > Len(src) THEN Append(out, offset)
    ELSE WriteIdx(rs, src, i + 1,
                  offset + Len(FacetVals(rs[src[i].ord + 1], src[i].doc)),
                  Append(out, offset))

WriteFacetIdx(rs, mapping) == WriteIdx(rs, SourceDocs(rs, mapping), 1, 0, <<>>)

\* variant of WriteFacetVals: the old ordinals written as they are
WriteFacetValsUntranslated(rs, mapping, tom) ==
    LET src == SourceDocs(rs, mapping)
    IN  FlattenSeq([i \in 1..Len(src) |-> FacetVals(rs[src[i].ord + 1], src[i].doc)])

\* lines 606-632: every old ordinal translated through the mapping of its
\* segment
WriteFacetVals(rs, mapping, tom) ==
    LET src == SourceDocs(rs, mapping)
    IN  FlattenSeq([i \in 1..Len(src) |->
            LET vals == FacetVals(rs[src[i].ord + 1], src[i].doc)
            IN  [j \in 1..Len(vals) |-> tom[src[i].ord + 1][vals[j] + 1]]])

----------------------------------------------------------------------------
(* Numeric fast fields.                                                    *)

NoMinMax == [is_some |-> FALSE, min |-> 0, max |-> 0]
MinMax(lo, hi) == [is_some |-> TRUE, min |-> lo, max |-> hi]

\* variant of ComputeMinMaxVal: with deletes, the value of the first live
\* document stands for both bounds
ComputeMinMaxValFirstLive(seg) ==
    IF MaxDocOf(seg) = 0 THEN NoMinMax
    ELSE IF HasDeletes(seg)
            THEN LET live == DocIdsAlive(seg)
                 IN  IF live = <<>> THEN NoMinMax
                     ELSE MinMax(FastVal(seg, live[1]), FastVal(seg, live[1]))
            ELSE MinMax(MinValue(seg), MaxValue(seg))

\* compute_min_max_val
ComputeMinMaxVal(seg) ==
    IF MaxDocOf(seg) = 0 THEN NoMinMax
    ELSE IF HasDeletes(seg)
            THEN LET live == {FastVal(seg, d) : d \in Range(DocIdsAlive(seg))}
                 IN  IF live = {} THEN NoMinMax
                     ELSE MinMax(MinOfSet(live), MaxOfSet(live))
            ELSE MinMax(MinValue(seg), MaxValue(seg))

\* a column opened on the fast field serializer with its bounds, and the
\* values added to it
Column(field, kind, lo, hi, vals) ==
    [field |-> field, kind |-> kind, min |-> lo, max |-> hi, vals |-> vals]

\* write_single_fast_field; panic is the failed expect of line 333
WriteSingleFastField(rs, field, mapping) ==
    LET found == SelectSeq([i \in 1..Len(rs) |-> ComputeMinMaxVal(rs[i])],
                           LAMBDA m : m.is_some)
        kept == SelectSeq(rs, LAMBDA r : MaxDocOf(r) # MaxDocOf(r) - NumDocs(r))
        src == IF mapping.is_some THEN mapping.entries ELSE StackOrder(kept)
        from == IF mapping.is_some THEN rs ELSE kept
    IN  IF found = <<>>
           THEN [panic |-> TRUE, columns |-> <<>>]
           ELSE [panic |-> FALSE,
                 columns |-> <<Column(field, "vals",
                     MinOfSet({found[i].min : i \in 1..Len(found)}),
                     MaxOfSet({found[i].max : i \in 1..Len(found)}),
                     [i \in 1..Len(src) |-> FastVal(from[src[i].ord + 1], src[i].doc)])>>]

\* variant of TotalNumVals: the values of deleted documents are counted too
TotalNumValsIgnoringDeletes(rs, lens) ==
    SumSeq([i \in 1..Len(rs) |-> SumSeq(lens[i])])

\* write_1_n_fast_field_idx_generic, first pass: total_num_vals; lens[i]
\* holds get_len of every document of reader i
TotalNumVals(rs, lens) ==
    SumSeq([i \in 1..Len(rs) |->
        IF HasDeletes(rs[i])
           THEN SumSeq([k \in 1..NumDocs(rs[i]) |-> lens[i][DocIdsAlive(rs[i])[k] + 1]])
           ELSE SumSeq(lens[i])])

\* write_1_n_fast_field_idx_generic, second pass: the running offsets
IdxColumn(field, rs, mapping, lens) ==
    LET src == SourceDocs(rs, mapping)
    IN  Column(field, "idx", 0, TotalNumVals(rs, lens),
            [i \in 1..(Len(src) + 1) |->
                SumSeq([j \in 1..(i - 1) |-> lens[src[j].ord + 1][src[j].doc + 1]])])

MultiLens(rs) ==
    [i \in 1..Len(rs) |-> [d \in 1..MaxDocOf(rs[i]) |-> Len(MultiVals(rs[i], d - 1))]]

FacetLens(rs) ==
    [i \in 1..Len(rs) |-> [d \in 1..MaxDocOf(rs[i]) |-> Len(FacetVals(rs[i], d - 1))]]

\* write_multi_fast_field: min_value starts at u64::MAX and max_value at 0,
\* so min_value > max_value exactly when no live value was seen
WriteMultiFastField(rs, field, mapping) ==
    LET all == StackOrder(rs)
        live == FlattenSeq([i \in 1..Len(all) |->
                    MultiVals(rs[all[i].ord + 1], all[i].doc)])
        src == SourceDocs(rs, mapping)
        vals == FlattenSeq([i \in 1..Len(src) |->
                    MultiVals(rs[src[i].ord + 1], src[i].doc)])
    IN  <<IdxColumn(field, rs, mapping, MultiLens(rs)),
          Column(field, "vals",
                 IF live = <<>> THEN 0 ELSE MinOfSet(Range(live)),
                 IF live = <<>> THEN 0 ELSE MaxOfSet(Range(live)),
                 vals)>>

BytesLens(rs) ==
    [i \in 1..Len(rs) |-> [d \in 1..MaxDocOf(rs[i]) |-> Len(GetBytes(rs[i], d - 1))]]

\* write_bytes_fast_field: the offsets, then the bytes of every document
\* one after the other; the bytes writer is opened without bounds
WriteBytesFastField(rs, field, mapping) ==
    LET src == SourceDocs(rs, mapping)
    IN  <<IdxColumn(field, rs, mapping, BytesLens(rs)),
          Column(field, "bytes", 0, 0,
                 FlattenSeq([i \in 1..Len(src) |->
                     GetBytes(rs[src[i].ord + 1], src[i].doc)]))>>

\* write_hierarchical_facet_field: the two columns of the facet
WriteHierarchicalFacetField(rs, field, mapping, tom) ==
    <<IdxColumn(field, rs, mapping, FacetLens(rs)),
      Column(field, "vals", 0, MaxTermOrd(tom), WriteFacetVals(rs, mapping, tom))>>

\* write_fast_fields: the fields in schema order; a panic leaves the
\* columns written before it
WriteFastFieldsColumns(rs, mapping, tom) ==
    LET facet == WriteHierarchicalFacetField(rs, FacetField, mapping, tom)
        single == WriteSingleFastField(rs, SortField, mapping)
    IN  IF single.panic
           THEN [panic |-> TRUE, columns |-> facet]
           ELSE [panic |-> FALSE,
                 columns |-> facet \o single.columns
                                \o WriteMultiFastField(rs, MultiField, mapping)
                                \o WriteBytesFastField(rs, BytesField, mapping)]

----------------------------------------------------------------------------
(* write_storable_fields.                                                  *)

STACK_MIN_CHECKPOINTS == 6
WriterCompressor == "lz4"

\* variant of StoreSorted: an entry whose iterator is exhausted is passed
\* over
RECURSIVE StoreSortedSkipMissing(_, _, _, _, _)
StoreSortedSkipMissing(rs, entries, i, its, out) ==
    IF i > Len(entries) THEN [calls |-> out, error |-> "none"]
    ELSE LET ord == entries[i].ord
             raw == IterRaw(rs[ord + 1])
         IN  IF its[ord + 1] <= Len(raw)
                THEN StoreSortedSkipMissing(rs, entries, i + 1,
                         [its EXCEPT ![ord + 1] = @ + 1],
                         Append(out, [op |-> "store_bytes",
                                      payloads |-> <<raw[its[ord + 1]]>>]))
                ELSE StoreSortedSkipMissing(rs, entries, i + 1, its, out)

\* lines 1000-1013: pull the next payload of the entry's segment
RECURSIVE StoreSorted(_, _, _, _, _)
StoreSorted(rs, entries, i, its, out) ==
    IF i > Len(entries) THEN [calls |-> out, error |-> "none"]
    ELSE LET ord == entries[i].ord
             raw == IterRaw(rs[ord + 1])
         IN  IF its[ord + 1] <= Len(raw)
                THEN StoreSorted(rs, entries, i + 1,
                         [its EXCEPT ![ord + 1] = @ + 1],
                         Append(out, [op |-> "store_bytes",
                                      payloads |-> <<raw[its[ord + 1]]>>]))
                ELSE [calls |-> out, error |-> "DataCorruption"]

\* variant of StoreStackedSegment: the compressor of the segment is not
\* looked at
StoreStackedSegmentAnyCompressor(seg) ==
    IF \/ MaxDocOf(seg) - NumDocs(seg) > 0
       \/ Min2(seg.checkpoints, 7) < STACK_MIN_CHECKPOINTS
       THEN [i \in 1..Len(IterRaw(seg)) |->
                [op |-> "store_bytes", payloads |-> <<IterRaw(seg)[i]>>]]
       ELSE <<[op |-> "stack",
               payloads |-> [i \in 1..MaxDocOf(seg) |-> StoredPayload(seg, i - 1)]]>>

\* lines 1015-1041: stack the blocks of the segment or copy its live
\* documents one by one
StoreStackedSegment(seg) ==
    IF \/ MaxDocOf(seg) - NumDocs(seg) > 0
       \/ Min2(seg.checkpoints, 7) < STACK_MIN_CHECKPOINTS
       \/ seg.compressor # WriterCompressor
       THEN [i \in 1..Len(IterRaw(seg)) |->
                [op |-> "store_bytes", payloads |-> <<IterRaw(seg)[i]>>]]
       ELSE <<[op |-> "stack",
               payloads |-> [i \in 1..MaxDocOf(seg) |-> StoredPayload(seg, i - 1)]]>>

\* variant of WriteStorableFieldsCalls: the segments copied one after the
\* other whatever the mapping
WriteStorableFieldsCallsStacked(rs, mapping) ==
    [calls |-> FlattenSeq([i \in 1..Len(rs) |-> StoreStackedSegment(rs[i])]),
     error |-> "none"]

WriteStorableFieldsCalls(rs, mapping) ==
    IF mapping.is_some
       THEN StoreSorted(rs, mapping.entries, 1, [i \in 1..Len(rs) |-> 1], <<>>)
       ELSE [calls |-> FlattenSeq([i \in 1..Len(rs) |-> StoreStackedSegment(rs[i])]),
             error |-> "none"]

\* the payloads of the written store, by new doc id
StoredDocs(calls) == FlattenSeq([i \in 1..Len(calls) |-> calls[i].payloads])

----------------------------------------------------------------------------
(* Input families.                                                         *)

\* positions of term t in a document of sort value v
PosOf(t, v) == IF (t + v) % 2 = 0 THEN <<v, v + t + 1>> ELSE <<v + t>>

\* a document of sort value v containing exactly the terms of S, in the
\* text field and as facets, and their numbers in the multi-valued field
MkDoc(alive, v, S) ==
    [alive |-> alive, val |-> v,
     terms |-> [t \in Terms |-> IF t \in S THEN PosOf(t, v) ELSE <<>>],
     facets |-> S,
     multi |-> SelectSeq([t \in 1..NumTerms |-> t], LAMBDA t : t \in S)]

\* size of a document: one for the document, one more when it is deleted,
\* and t for every term t it contains
DocSize(alive, S) ==
    1 + (IF alive THEN 0 ELSE 1)
      + SumSeq([t \in 1..NumTerms |-> IF t \in S THEN t ELSE 0])

\* documents of sort value v and of the given size; the documents of the
\* ordering family contain no term
DocsOfValue(v, size, post) ==
    LET shapes == BOOLEAN \X (IF post THEN SUBSET Terms ELSE {{}})
    IN  {MkDoc(x[1], v, x[2]) : x \in {y \in shapes : DocSize(y[1], y[2]) = size}}

\* sequences of documents of the given total size whose sort values ascend
\* from lo, every unit of increase counting for one
RECURSIVE AscDocSeqs(_, _, _)
AscDocSeqs(size, lo, post) ==
    IF size = 0 THEN {<<>>}
    ELSE UNION {
           LET heads == DocsOfValue(lo + p[1], p[2], post)
               rests == AscDocSeqs(size - p[1] - p[2], lo + p[1], post)
           IN  {<<d>> \o rest : d \in heads, rest \in rests}
           : p \in {q \in (0..size) \X (1..size) : q[1] + q[2] <= size} }

Reverse(s) == [i \in 1..Len(s) |-> s[Len(s) + 1 - i]]

\* a segment is written sorted on the sort field, in the index order
DocSeqs(size, post, order) ==
    IF order = "desc" THEN {Reverse(s) : s \in AscDocSeqs(size, 0, post)}
                      ELSE AscDocSeqs(size, 0, post)

MkSegment(id, docs) ==
    [id |-> id, docs |-> docs, checkpoints |-> Len(docs), compressor |-> "lz4",
     store_missing |-> 0]

\* lists of non-empty segments of total size at most size
RECURSIVE SegLists(_, _, _, _)
SegLists(size, id, post, order) ==
    IF size = 0 THEN {<<>>}
    ELSE {<<>>} \cup UNION {
           LET heads == {MkSegment(id, docs) : docs \in DocSeqs(n, post, order)}
               rests == SegLists(size - n, id + 1, post, order)
           IN  {<<seg>> \o rest : seg \in heads, rest \in rests}
           : n \in 1..size }

\* the segment lists that differ from segs in that the store of a segment
\* may miss the payload of its last live document
TruncatedStores(segs) ==
    {[i \in 1..Len(segs) |-> [segs[i] EXCEPT !.store_missing = m[i]]] :
        m \in {x \in [1..Len(segs) -> {0, 1}] :
                  \A i \in 1..Len(segs) : x[i] <= NumDocs(segs[i])}}

\* sequences of documents of sort value 0 without terms, of the given total
\* size
RECURSIVE PlainDocSeqs(_)
PlainDocSeqs(size) ==
    IF size = 0 THEN {<<>>}
    ELSE {<<MkDoc(TRUE, 0, {})>> \o rest : rest \in PlainDocSeqs(size - 1)}
         \cup (IF size >= 2
                  THEN {<<MkDoc(FALSE, 0, {})>> \o rest : rest \in PlainDocSeqs(size - 2)}
                  ELSE {})

\* a store of the documents: per_block documents in every block but the
\* last, hence one checkpoint per block
MkStoreSegment(id, docs, per_block, compressor) ==
    [id |-> id, docs |-> docs,
     checkpoints |-> (Len(docs) + per_block - 1) \div per_block,
     compressor |-> compressor, store_missing |-> 0]

\* the shapes of a store and their sizes: one for two documents per block,
\* one for a compressor other than lz4
StoreShapes == {1, 2} \X {"lz4", "brotli"}
StoreShapeSize(shape) ==
    (shape[1] - 1) + (IF shape[2] = "lz4" THEN 0 ELSE 1)

\* lists of at most two non-empty segments with stores of every shape, of
\* total size at most size
RECURSIVE StoreSegLists(_, _)
StoreSegLists(size, id) ==
    IF size = 0 \/ id > 2 THEN {<<>>}
    ELSE {<<>>} \cup UNION {
           LET n == size - p[1] - StoreShapeSize(p[2])
               heads == {MkStoreSegment(id, docs, p[2][1], p[2][2]) :
                            docs \in PlainDocSeqs(p[1])}
               rests == StoreSegLists(n, id + 1)
           IN  {<<seg>> \o rest : seg \in heads, rest \in rests}
           : p \in {q \in (1..size) \X StoreShapes :
                       q[1] + StoreShapeSize(q[2]) <= size} }

\* sequences of documents of sort value 0 over the terms 1 and 2, of the
\* given total size, a document counting for one, one more when deleted and
\* one more for each of its terms
RECURSIVE TermDocSeqs(_)
TermDocSeqs(size) ==
    IF size = 0 THEN {<<>>}
    ELSE UNION {
           {<<MkDoc(x[1], 0, x[2])>> \o rest :
               rest \in TermDocSeqs(size - 1 - (IF x[1] THEN 0 ELSE 1) - Cardinality(x[2]))}
           : x \in {y \in BOOLEAN \X SUBSET {1, 2} :
                       1 + (IF y[1] THEN 0 ELSE 1) + Cardinality(y[2]) <= size} }

\* lists of at most two non-empty segments of such documents, of total size
\* at most size
RECURSIVE TermSegLists(_, _)
TermSegLists(size, id) ==
    IF size = 0 \/ id > 2 THEN {<<>>}
    ELSE {<<>>} \cup UNION {
           LET heads == {MkSegment(id, docs) : docs \in TermDocSeqs(n)}
               rests == TermSegLists(size - n, id + 1)
           IN  {<<seg>> \o rest : seg \in heads, rest \in rests}
           : n \in 1..size }

\* documents of sort value v over the terms 1 and 2 and of the given size, a
\* document counting for one, one more when deleted and one more for each of
\* its terms
SortedTermDocs(v, size) ==
    {MkDoc(x[1], v, x[2]) :
        x \in {y \in BOOLEAN \X SUBSET {1, 2} :
                  1 + (IF y[1] THEN 0 ELSE 1) + Cardinality(y[2]) = size}}

\* sequences of such documents of the given total size whose sort values
\* ascend from lo, every unit of increase counting for one
RECURSIVE AscTermDocSeqs(_, _)
AscTermDocSeqs(size, lo) ==
    IF size = 0 THEN {<<>>}
    ELSE UNION {
           LET heads == SortedTermDocs(lo + p[1], p[2])
               rests == AscTermDocSeqs(size - p[1] - p[2], lo + p[1])
           IN  {<<d>> \o rest : d \in heads, rest \in rests}
           : p \in {q \in (0..size) \X (1..size) : q[1] + q[2] <= size} }

\* lists of at most two non-empty segments of such documents, each sorted
\* in the index order, of total size at most size
RECURSIVE SortedTermSegLists(_, _, _)
SortedTermSegLists(size, id, order) ==
    IF size = 0 \/ id > 2 THEN {<<>>}
    ELSE {<<>>} \cup UNION {
           LET seqs == AscTermDocSeqs(n, 0)
               heads == {MkSegment(id, IF order = "desc" THEN Reverse(docs) ELSE docs) :
                            docs \in seqs}
               rests == SortedTermSegLists(size - n, id + 1, order)
           IN  {<<seg>> \o rest : seg \in heads, rest \in rests}
           : n \in 1..size }

\* num_docs of candidate segments, admission family
AdmitCounts == {0, 1, 2, 1073741824, 2147483647}

RECURSIVE CountLists(_)
CountLists(k) ==
    IF k = 0 THEN {<<>>}
    ELSE {<<>>} \cup {<<c>> \o rest : c \in AdmitCounts, rest \in CountLists(k - 1)}

----------------------------------------------------------------------------
(* Specification.                                                          *)

\* crate::Result<u32> of write: not returned yet, Err(error) or Ok(max_doc)
NoResult == [returned |-> FALSE, error |-> "none", max_doc |-> 0]
ReturnErr(e) == [returned |-> TRUE, error |-> e, max_doc |-> 0]
ReturnOk(n) == [returned |-> TRUE, error |-> "none", max_doc |-> n]

InitCommon ==
    /\ pc = "start"
    /\ readers = <<>>
    /\ max_doc = 0
    /\ doc_id_mapping = None
    /\ merged_doc_id_map = <<>>
    /\ postings_log = <<>>
    /\ term_ord_mappings = <<>>
    /\ facet_idx = <<>>
    /\ facet_vals = <<>>
    /\ store_out = <<>>
    /\ fieldnorms_out = <<>>
    /\ fieldnorm_readers = <<>>
    /\ fast_out = <<>>
    /\ history = <<>>
    /\ result = NoResult
    /\ admitted = "none"

\* postings family
Init ==
    /\ sort_by \in Orders
    /\ segments \in SegLists(PostMaxSize, 1, TRUE, sort_by)
    /\ seg_num_docs = [i \in 1..Len(segments) |-> NumDocs(segments[i])]
    /\ faults = FALSE
    /\ InitCommon

\* ordering family
InitMap ==
    /\ sort_by \in Orders
    /\ segments \in SegLists(MaxSize, 1, FALSE, sort_by)
    /\ seg_num_docs = [i \in 1..Len(segments) |-> NumDocs(segments[i])]
    /\ faults = FALSE
    /\ InitCommon

\* fault family: the collaborators may return errors
InitFail ==
    /\ sort_by \in Orders
    /\ segments \in SegLists(FailMaxSize, 1, TRUE, sort_by)
    /\ seg_num_docs = [i \in 1..Len(segments) |-> NumDocs(segments[i])]
    /\ faults = TRUE
    /\ InitCommon

\* store family: the document store of a segment may yield fewer payloads
\* than the segment has live documents
InitStore ==
    /\ sort_by \in Orders
    /\ \E base \in SegLists(StoreMaxSize, 1, FALSE, sort_by) :
         segments \in TruncatedStores(base)
    /\ seg_num_docs = [i \in 1..Len(segments) |-> NumDocs(segments[i])]
    /\ faults = FALSE
    /\ InitCommon

\* store-shape family: segments whose stores differ in block count and
\* compressor
InitStack ==
    /\ sort_by \in {"none", "asc"}
    /\ segments \in StoreSegLists(StackMaxSize, 1)
    /\ seg_num_docs = [i \in 1..Len(segments) |-> NumDocs(segments[i])]
    /\ faults = FALSE
    /\ InitCommon

\* term family: segments that share terms, some of them held by deleted
\* documents only
InitTerms ==
    /\ sort_by \in {"none", "asc"}
    /\ segments \in TermSegLists(TermsMaxSize, 1)
    /\ seg_num_docs = [i \in 1..Len(segments) |-> NumDocs(segments[i])]
    /\ faults = FALSE
    /\ InitCommon

\* sorted-term family: segments of a sorted index whose documents hold terms
InitSortedTerms ==
    /\ sort_by \in {"asc", "desc"}
    /\ segments \in SortedTermSegLists(SortedTermsMaxSize, 1, sort_by)
    /\ seg_num_docs = [i \in 1..Len(segments) |-> NumDocs(segments[i])]
    /\ faults = FALSE
    /\ InitCommon

\* admission family: only the counts of the candidate segments
InitOpen ==
    /\ sort_by = "none"
    /\ segments = <<>>
    /\ seg_num_docs \in CountLists(MaxAdmitSegs)
    /\ faults = FALSE
    /\ InitCommon

\* open, lines 179-199: the sum and the limit check; max_doc is the field
\* of the merger that open returns, 0 when it returns none
Admission(counts, wrap) ==
    LET acc == AccumulateMaxDoc(counts, Limbs(0), wrap)
    IN  IF acc.overflow THEN [outcome |-> "overflow_abort", max_doc |-> 0]
        ELSE IF acc.max_doc.hi >= MAX_DOC_LIMIT_HI
                THEN [outcome |-> "InvalidArgument", max_doc |-> 0]
                ELSE [outcome |-> "ok",
                      max_doc |-> acc.max_doc.hi * LIMB + acc.max_doc.lo]

\* the errors a call to a collaborator may return
Faults == IF faults THEN {"none", "IoError"} ELSE {"none"}

\* variant of StageBefore: the postings are written before the fieldnorms
StageBeforePostingsFirst(stage) ==
    CASE stage = "mapped" -> "opened"
      [] stage = "postings" -> "mapped"
      [] stage = "fieldnorms" -> "postings"
      [] stage = "norms_opened" -> "fieldnorms"
      [] stage = "fastfields" -> "norms_opened"
      [] stage = "stored" -> "fastfields"
      [] stage = "closed" -> "stored"

\* write, lines 1053-1085: the stage that write completes right before it
\* starts the given one
StageBefore(stage) ==
    CASE stage = "mapped" -> "opened"
      [] stage = "fieldnorms" -> "mapped"
      [] stage = "norms_opened" -> "fieldnorms"
      [] stage = "postings" -> "norms_opened"
      [] stage = "fastfields" -> "postings"
      [] stage = "stored" -> "fastfields"
      [] stage = "closed" -> "stored"

\* variant of StageResult: the error of a stage is dropped
StageResultIgnoringError(stage, err) == stage

\* the ? operator on the result of a stage: write goes on after Ok and
\* returns the error otherwise
StageResult(stage, err) == IF err = "none" THEN stage ELSE "write_failed"

\* what write returns after a stage: nothing yet, or the error
ReturnedAfter(err) == IF err = "none" THEN result ELSE ReturnErr(err)

\* the calls a stage adds to the history, or the error it returned
Calls(err, n, component) ==
    IF err = "none" THEN history \o [i \in 1..n |-> component]
                    ELSE Append(history, "Err")

\* IndexMerger::open
Open ==
    /\ pc = "start"
    /\ \E wrap \in BOOLEAN :
         LET adm == Admission(seg_num_docs, wrap) IN
         /\ admitted' = adm.outcome
         /\ max_doc' = adm.max_doc
         /\ readers' = IF sort_by # "none"
                          THEN SortReadersByMinSortField(OpenReaders(segments), sort_by)
                          ELSE OpenReaders(segments)
         /\ pc' = IF adm.outcome = "ok" THEN "opened" ELSE "open_failed"
    /\ UNCHANGED <<segments, sort_by, doc_id_mapping, merged_doc_id_map,
                   postings_log, term_ord_mappings, facet_idx, facet_vals,
                   store_out, fieldnorms_out, fieldnorm_readers, fast_out,
                   history, faults, result, seg_num_docs>>

\* open on the counts alone
OpenAdmission ==
    /\ pc = "start"
    /\ \E wrap \in BOOLEAN :
         LET adm == Admission(seg_num_docs, wrap) IN
         /\ admitted' = adm.outcome
         /\ max_doc' = adm.max_doc
         /\ pc' = IF adm.outcome = "ok" THEN "opened" ELSE "open_failed"
    /\ UNCHANGED <<segments, sort_by, readers, doc_id_mapping, merged_doc_id_map,
                   postings_log, term_ord_mappings, facet_idx, facet_vals,
                   store_out, fieldnorms_out, fieldnorm_readers, fast_out,
                   history, faults, result, seg_num_docs>>

\* write, lines 1053-1064
DecideMode ==
    /\ pc = StageBefore("mapped")
    /\ \E err \in Faults :
         /\ doc_id_mapping' = IF err = "none"
                                 THEN ComputeDocIdMapping(readers, sort_by)
                                 ELSE doc_id_mapping
         /\ history' = Calls(err, 0, "mode")
         /\ result' = ReturnedAfter(err)
         /\ pc' = StageResult("mapped", err)
    /\ UNCHANGED <<segments, sort_by, readers, max_doc, merged_doc_id_map,
                   postings_log, term_ord_mappings, facet_idx, facet_vals,
                   store_out, fieldnorms_out, fieldnorm_readers, fast_out,
                   faults, seg_num_docs, admitted>>

\* write_fieldnorms: serialize_field for every field, then close
WriteFieldnorms ==
    /\ pc = StageBefore("fieldnorms")
    /\ \E err \in Faults :
         /\ fieldnorms_out' = IF err = "none"
                                 THEN WriteFieldnormsData(readers, doc_id_mapping)
                                 ELSE fieldnorms_out
         /\ history' = IF err = "none"
                          THEN Append(Calls(err, Len(FieldsWithFieldnorm), "fieldnorms"),
                                      "fieldnorms.close")
                          ELSE Calls(err, 0, "fieldnorms")
         /\ result' = ReturnedAfter(err)
         /\ pc' = StageResult("fieldnorms", err)
    /\ UNCHANGED <<segments, sort_by, readers, max_doc, doc_id_mapping,
                   merged_doc_id_map, postings_log, term_ord_mappings, facet_idx,
                   facet_vals, store_out, fieldnorm_readers, fast_out,
                   faults, seg_num_docs, admitted>>

\* write, lines 1069-1072: open a reader on the fieldnorms just written
OpenFieldnormReaders ==
    /\ pc = StageBefore("norms_opened")
    /\ \E err \in Faults :
         /\ fieldnorm_readers' = IF err = "none" THEN fieldnorms_out
                                                 ELSE fieldnorm_readers
         /\ history' = Calls(err, 0, "fieldnorms")
         /\ result' = ReturnedAfter(err)
         /\ pc' = StageResult("norms_opened", err)
    /\ UNCHANGED <<segments, sort_by, readers, max_doc, doc_id_mapping,
                   merged_doc_id_map, postings_log, term_ord_mappings, facet_idx,
                   facet_vals, store_out, fieldnorms_out, fast_out,
                   faults, seg_num_docs, admitted>>

\* write_postings
WritePostings ==
    /\ pc = StageBefore("postings")
    /\ \E err \in Faults :
         LET log == WritePostingsLog(readers, fieldnorm_readers, doc_id_mapping) IN
         /\ merged_doc_id_map' = IF err = "none"
                                    THEN MergedDocIdMap(readers, doc_id_mapping)
                                    ELSE merged_doc_id_map
         /\ postings_log' = IF err = "none" THEN log ELSE postings_log
         /\ term_ord_mappings' =
                IF err = "none"
                   THEN WritePostingsForField(readers, FacetField,
                            GetField(fieldnorm_readers, FacetField), doc_id_mapping).tom
                   ELSE term_ord_mappings
         /\ history' = Calls(err, Len(log), "postings")
         /\ result' = ReturnedAfter(err)
         /\ pc' = StageResult("postings", err)
    /\ UNCHANGED <<segments, sort_by, readers, max_doc, doc_id_mapping,
                   facet_idx, facet_vals, store_out, fieldnorms_out,
                   fieldnorm_readers, fast_out, faults, seg_num_docs, admitted>>

\* write_fast_fields; the failed expect of write_single_fast_field aborts
\* the merge
WriteFastFields ==
    /\ pc = StageBefore("fastfields")
    /\ \E err \in Faults :
         LET w == WriteFastFieldsColumns(readers, doc_id_mapping, term_ord_mappings) IN
         /\ facet_idx' = IF err = "none" THEN WriteFacetIdx(readers, doc_id_mapping)
                                         ELSE facet_idx
         /\ facet_vals' = IF err = "none"
                             THEN WriteFacetVals(readers, doc_id_mapping, term_ord_mappings)
                             ELSE facet_vals
         /\ fast_out' = IF err = "none" THEN w.columns ELSE fast_out
         /\ history' = IF err = "none" /\ w.panic
                          THEN Append(Calls(err, Len(w.columns), "fastfields"), "panic")
                          ELSE Calls(err, Len(w.columns), "fastfields")
         /\ result' = ReturnedAfter(err)
         /\ pc' = IF err = "none" /\ w.panic THEN "aborted"
                                             ELSE StageResult("fastfields", err)
    /\ UNCHANGED <<segments, sort_by, readers, max_doc, doc_id_mapping,
                   merged_doc_id_map, postings_log, term_ord_mappings,
                   store_out, fieldnorms_out, fieldnorm_readers, faults,
                   seg_num_docs, admitted>>

\* write_storable_fields
WriteStorableFields ==
    /\ pc = StageBefore("stored")
    /\ \E fault \in Faults :
         LET w == WriteStorableFieldsCalls(readers, doc_id_mapping)
             err == IF fault # "none" THEN fault ELSE w.error
         IN
         /\ store_out' = IF fault = "none" THEN w.calls ELSE store_out
         /\ history' = IF fault = "none" /\ w.error # "none"
                          THEN Append(Calls("none", Len(w.calls), "store"), "Err")
                          ELSE Calls(fault, Len(w.calls), "store")
         /\ result' = ReturnedAfter(err)
         /\ pc' = StageResult("stored", err)
    /\ UNCHANGED <<segments, sort_by, readers, max_doc, doc_id_mapping,
                   merged_doc_id_map, postings_log, term_ord_mappings,
                   facet_idx, facet_vals, fieldnorms_out, fieldnorm_readers,
                   fast_out, faults, seg_num_docs, admitted>>

\* serializer.close() and Ok(self.max_doc)
Close ==
    /\ pc = StageBefore("closed")
    /\ \E err \in Faults :
         /\ history' = Calls(err, 1, "close")
         /\ result' = IF err = "none" THEN ReturnOk(max_doc) ELSE ReturnErr(err)
         /\ pc' = StageResult("closed", err)
    /\ UNCHANGED <<segments, sort_by, readers, max_doc, doc_id_mapping,
                   merged_doc_id_map, postings_log, term_ord_mappings,
                   facet_idx, facet_vals, store_out, fieldnorms_out,
                   fieldnorm_readers, fast_out, faults, seg_num_docs, admitted>>

Next ==
    \/ Open
    \/ DecideMode
    \/ WriteFieldnorms
    \/ OpenFieldnormReaders
    \/ WritePostings
    \/ WriteFastFields
    \/ WriteStorableFields
    \/ Close

NextOpen == OpenAdmission

Spec == Init /\ [][Next]_vars
SpecMap == InitMap /\ [][Next]_vars
SpecFail == InitFail /\ [][Next]_vars
SpecStore == InitStore /\ [][Next]_vars
SpecStack == InitStack /\ [][Next]_vars
SpecTerms == InitTerms /\ [][Next]_vars
SpecSortedTerms == InitSortedTerms /\ [][Next]_vars
SpecOpen == InitOpen /\ [][NextOpen]_vars

----------------------------------------------------------------------------
(* Properties.                                                             *)

AfterPostings == postings_log # <<>>
AfterFastFields == fast_out # <<>>
AfterStore == pc \in {"stored", "closed"}

\* the source document of new doc id n under the doc id mapping
MappingEntry(n) == doc_id_mapping.entries[n + 1]
MappingVal(n) == SortVal(readers[MappingEntry(n).ord + 1], MappingEntry(n).doc)

\* the exact sum of the counts of the non-empty candidate segments, in limbs
RECURSIVE WideSum(_)
WideSum(counts) ==
    IF counts = <<>> THEN Limbs(0)
    ELSE WideAdd(Limbs(Head(counts)), WideSum(Tail(counts)))

\* C1: whenever open accepts the candidate segments, the max_doc that
\* write returns is the sum of their num_docs.
C1_NewMaxDocIsSum ==
    admitted = "ok" => Limbs(max_doc) = WideSum(seg_num_docs)

\* C2: within one term (between new_term and close_term) the doc ids
\* passed to write_doc are strictly ascending, in both modes.
C2_PostingsAscending ==
    \A i, j \in 1..Len(postings_log) :
        (/\ i < j
         /\ \A k \in i..j : postings_log[k].op = "write_doc")
        => postings_log[i].doc < postings_log[j].doc

C2_Witness ==
    /\ pc = "postings"
    /\ doc_id_mapping.is_some
    /\ \E i \in 1..(Len(postings_log) - 1) :
         /\ postings_log[i].op = "write_doc"
         /\ postings_log[i + 1].op = "write_doc"
         /\ MappingEntry(postings_log[i].doc).ord > MappingEntry(postings_log[i + 1].doc).ord

RECURSIVE CumulativeSum(_, _)
CumulativeSum(deltas, start) ==
    IF deltas = <<>> THEN <<>>
    ELSE <<start + Head(deltas)>> \o CumulativeSum(Tail(deltas), start + Head(deltas))

\* C3: in sorted mode the positions passed to write_doc are deltas: their
\* cumulative sum from 0 is the absolute position list of the source
\* document's posting.
C3_SortedDeltasSum ==
    doc_id_mapping.is_some =>
        \A i \in 1..Len(postings_log) :
            postings_log[i].op = "write_doc" =>
                LET e == MappingEntry(postings_log[i].doc)
                IN  CumulativeSum(postings_log[i].pos, 0) =
                        PostingPositions(readers[e.ord + 1], postings_log[i].field,
                                         postings_log[i].term, e.doc)

\* C4: in sorted mode the sort-field values of adjacent new doc ids are
\* monotonic in the configured direction.
C4_SortOrder ==
    doc_id_mapping.is_some =>
        \A n \in 0..(Len(doc_id_mapping.entries) - 2) :
            IF sort_by = "asc" THEN MappingVal(n) <= MappingVal(n + 1)
                               ELSE MappingVal(n) >= MappingVal(n + 1)

C4_Witness ==
    /\ doc_id_mapping.is_some
    /\ sort_by = "desc"
    /\ \E n \in 0..(Len(doc_id_mapping.entries) - 3) :
         /\ MappingVal(n) > MappingVal(n + 1)
         /\ MappingVal(n + 1) > MappingVal(n + 2)
         /\ MappingEntry(n).ord # MappingEntry(n + 1).ord
         /\ MappingEntry(n + 1).ord # MappingEntry(n + 2).ord

NewTermEvents(field) ==
    {i \in 1..Len(postings_log) :
        postings_log[i].op = "new_term" /\ postings_log[i].field = field}

EmittedTerms(field) == {postings_log[i].term : i \in NewTermEvents(field)}

\* some live document of some candidate segment contains the term
LiveTerm(field, t) ==
    \E s \in 1..Len(segments) : \E i \in 1..Len(segments[s].docs) :
        segments[s].docs[i].alive /\ DocHasTerm(segments[s].docs[i], field, t)

\* C5: a term gets a new_term call iff some live document contains it,
\* and it gets at most one.
C5_TermSurvival ==
    AfterPostings =>
        \A f \in 1..Len(IndexedFields) : \A t \in Terms :
            LET field == IndexedFields[f] IN
            /\ t \in EmittedTerms(field) <=> LiveTerm(field, t)
            /\ Cardinality({i \in NewTermEvents(field) : postings_log[i].term = t}) <= 1

C5_Witness ==
    /\ pc = "postings"
    /\ \E t \in Terms :
         /\ ~LiveTerm(TextField, t)
         /\ \E s \in 1..Len(readers) : t \in Range(TermDict(readers[s], TextField))
    /\ EmittedTerms(TextField) # {}

\* the ordinal new_term returned for the term: the number of terms opened
\* before it in the field
NewTermOrd(field, t) ==
    Cardinality({i \in NewTermEvents(field) : postings_log[i].term < t})

\* the values of new doc id n in the merged facet column
MergedFacetVals(n) == SubSeq(facet_vals, facet_idx[n + 1] + 1, facet_idx[n + 2])

\* C6: every old facet ordinal of a live document is written as the
\* ordinal new_term returned for the same term.
C6_FacetRemap ==
    AfterFastFields =>
        \A s \in 1..Len(readers) : \A d \in 0..(MaxDocOf(readers[s]) - 1) :
            IsAlive(readers[s], d) =>
                LET old == FacetVals(readers[s], d)
                    n == merged_doc_id_map[s][d + 1]
                    term(j) == TermDict(readers[s], FacetField)[old[j] + 1]
                IN  /\ \A j \in 1..Len(old) : term(j) \in EmittedTerms(FacetField)
                    /\ MergedFacetVals(n) =
                           [j \in 1..Len(old) |-> NewTermOrd(FacetField, term(j))]

C6_Witness ==
    /\ pc = "fastfields"
    /\ \E s \in 1..Len(readers) : \E d \in 0..(MaxDocOf(readers[s]) - 1) :
         /\ IsAlive(readers[s], d)
         /\ \E j \in 1..Len(FacetVals(readers[s], d)) :
              MergedFacetVals(merged_doc_id_map[s][d + 1])[j] # FacetVals(readers[s], d)[j]
    /\ \E t \in Terms : t \notin EmittedTerms(FacetField)
                        /\ \E s \in 1..Len(readers) :
                               t \in Range(TermDict(readers[s], FacetField))

\* C7: in sorted mode the mapping lists every live (segment, doc) exactly
\* once, lists no deleted document and has new_max_doc entries.
C7_Bijection ==
    doc_id_mapping.is_some =>
        /\ Len(doc_id_mapping.entries) = max_doc
        /\ \A n \in 0..(Len(doc_id_mapping.entries) - 1) :
             /\ MappingEntry(n).ord \in 0..(Len(readers) - 1)
             /\ MappingEntry(n).doc \in 0..(MaxDocOf(readers[MappingEntry(n).ord + 1]) - 1)
             /\ IsAlive(readers[MappingEntry(n).ord + 1], MappingEntry(n).doc)
        /\ \A s \in 1..Len(readers) : \A d \in 0..(MaxDocOf(readers[s]) - 1) :
             IsAlive(readers[s], d) =>
                 Cardinality({n \in 0..(Len(doc_id_mapping.entries) - 1) :
                                 MappingEntry(n) = [doc |-> d, ord |-> s - 1]}) = 1

C7_Witness ==
    /\ doc_id_mapping.is_some
    /\ Len(readers) >= 2
    /\ \E s \in 1..Len(readers) : HasDeletes(readers[s])
    /\ Len(doc_id_mapping.entries) >= 3

\* C8: in sorted mode, of two live documents with equal sort values the
\* one of the earlier segment ordinal, then of the lower old doc id, comes
\* first.
C8_StableTies ==
    doc_id_mapping.is_some =>
        \A i, j \in 0..(Len(doc_id_mapping.entries) - 1) :
            (i < j /\ MappingVal(i) = MappingVal(j)) =>
                \/ MappingEntry(i).ord < MappingEntry(j).ord
                \/ /\ MappingEntry(i).ord = MappingEntry(j).ord
                   /\ MappingEntry(i).doc < MappingEntry(j).doc

\* C9: in sorted mode the entries of one segment appear in ascending old
\* doc id, and the payload stored at new doc id n is the payload of the
\* document at position n of the mapping.
C9_StoredPayload ==
    doc_id_mapping.is_some =>
        /\ \A i, j \in 0..(Len(doc_id_mapping.entries) - 1) :
             (i < j /\ MappingEntry(i).ord = MappingEntry(j).ord)
                 => MappingEntry(i).doc < MappingEntry(j).doc
        /\ pc # "write_failed"
        /\ AfterStore =>
             StoredDocs(store_out) =
                 [n \in 1..Len(doc_id_mapping.entries) |->
                     StoredPayload(readers[MappingEntry(n - 1).ord + 1],
                                   MappingEntry(n - 1).doc)]

C9_Witness ==
    /\ pc = "stored"
    /\ doc_id_mapping.is_some
    /\ \E s \in 1..Len(readers) :
         /\ ~IsAlive(readers[s], 0)
         /\ NumDocs(readers[s]) >= 2
    /\ \E n \in 0..(Len(doc_id_mapping.entries) - 2) :
         MappingEntry(n).ord > MappingEntry(n + 1).ord

C11_AdmissionExact ==
    admitted # "none" =>
        /\ (admitted = "InvalidArgument")
               <=> (WideSum(seg_num_docs).hi >= MAX_DOC_LIMIT_HI)
        /\ admitted = "ok" =>
               /\ Limbs(max_doc) = WideSum(seg_num_docs)
               /\ WideSum(seg_num_docs).hi < MAX_DOC_LIMIT_HI

\* the place of a component in the order of write
ComponentRank(c) ==
    CASE c = "fieldnorms" -> 1
      [] c = "fieldnorms.close" -> 2
      [] c = "postings" -> 3
      [] c = "fastfields" -> 4
      [] c = "store" -> 5
      [] c = "close" -> 6
      [] OTHER -> 0

CalledBefore(c, j) == \E i \in 1..(j - 1) : history[i] = c

\* C12: the serializer components are called in the order fieldnorms,
\* postings, fast fields, store, close: a postings call comes after the
\* close of the fieldnorms serializer, a fast field call after the postings,
\* a store call after the fast fields, and close is the last call.
C12_StrictOrder ==
    /\ \A i, j \in 1..Len(history) :
         (i < j /\ ComponentRank(history[i]) > 0 /\ ComponentRank(history[j]) > 0)
             => ComponentRank(history[i]) <= ComponentRank(history[j])
    /\ \A j \in 1..Len(history) :
         /\ history[j] = "postings" => CalledBefore("fieldnorms.close", j)
         /\ history[j] = "fastfields" => CalledBefore("postings", j)
         /\ history[j] = "store" => CalledBefore("fastfields", j)
         /\ history[j] = "close" =>
                /\ j = Len(history)
                /\ CalledBefore("fastfields", j)

C12_Witness ==
    /\ pc = "closed"
    /\ faults
    /\ {"fieldnorms", "fieldnorms.close", "postings", "fastfields", "store", "close"}
           \subseteq Range(history)

\* C13: once a stage of write has returned an error, write returns that
\* error: no stage runs after it, close is never called and no new max_doc
\* is returned.
C13_ErrorIsFinal ==
    /\ \A i \in 1..Len(history) :
         history[i] = "Err" =>
             /\ i = Len(history)
             /\ pc = "write_failed"
             /\ result.returned
             /\ result.error \in {"IoError", "DataCorruption"}
    /\ pc = "write_failed" =>
         /\ history # <<>>
         /\ history[Len(history)] = "Err"
         /\ "close" \notin Range(history)

C13_Witness ==
    /\ pc = "write_failed"
    /\ result = ReturnErr("IoError")
    /\ "postings" \in Range(history)
    /\ "fastfields" \notin Range(history)

\* the iterator of the segment of mapping entry number i (from 1) is
\* exhausted when the entry is reached: the earlier entries of the segment
\* have taken every payload it yields
Exhausted(i) ==
    LET ord == doc_id_mapping.entries[i].ord
    IN  Cardinality({k \in 1..(i - 1) : doc_id_mapping.entries[k].ord = ord})
            >= Len(IterRaw(readers[ord + 1]))

StoreStageDone == pc \in {"stored", "closed"} \/ (pc = "write_failed" /\ ~faults)

\* C14: in sorted mode write_storable_fields returns DataCorruption iff
\* the iterator of some entry's segment is exhausted when the entry is
\* reached; store_bytes is then called for the entries before the first
\* such entry only, and the error does not occur when every store yields a
\* payload for each live document.
C14_DataCorruptionIff ==
    (doc_id_mapping.is_some /\ StoreStageDone) =>
        LET n == Len(doc_id_mapping.entries)
            bad == {i \in 1..n : Exhausted(i)}
        IN  /\ (result = ReturnErr("DataCorruption")) <=> (bad # {})
            /\ bad # {} => /\ pc = "write_failed"
                           /\ Len(store_out) = MinOfSet(bad) - 1
            /\ (\A s \in 1..Len(readers) : readers[s].store_missing = 0) => bad = {}

C14_Witness ==
    /\ doc_id_mapping.is_some
    /\ result = ReturnErr("DataCorruption")
    /\ Len(store_out) >= 2
    /\ Len(store_out) + 1 < Len(doc_id_mapping.entries)

\* C15: whenever a sort field is configured and
\* is_disjunct_and_sorted_on_sort_property holds of the sorted readers, the
\* order generate_doc_id_mapping produces for these readers is, entry by
\* entry, the stacking order: readers in ordinal order, live documents of
\* each in ascending old doc id.
C15_MappingIsStacking ==
    (pc = "mapped" /\ sort_by # "none"
        /\ IsDisjunctAndSortedOnSortProperty(readers, sort_by)) =>
            GenerateDocIdMapping(readers, sort_by) = StackOrder(readers)

\* the values of the sort field in the merged segment, in new doc id order
SortColumn == SelectSeq(fast_out, LAMBDA c : c.field = SortField /\ c.kind = "vals")

LiveVals(seg) == {SortVal(seg, d) : d \in Range(DocIdsAlive(seg))}

\* C16: with a sort field configured and stacking chosen because the
\* disjointness test passed, the sort-field values written for the live
\* documents are monotonic in new doc id in the configured direction, also
\* when min_value / max_value of a reader cover deleted documents.
C16_StackedIsSorted ==
    (AfterFastFields /\ sort_by # "none" /\ ~doc_id_mapping.is_some) =>
        \A c \in Range(SortColumn) :
            /\ Len(c.vals) = max_doc
            /\ \A n \in 1..(Len(c.vals) - 1) :
                 IF sort_by = "asc" THEN c.vals[n] <= c.vals[n + 1]
                                    ELSE c.vals[n] >= c.vals[n + 1]

C16_Witness ==
    /\ AfterFastFields /\ sort_by = "asc" /\ ~doc_id_mapping.is_some
    /\ Len(readers) >= 2
    /\ SortColumn # <<>>
    /\ \E c \in Range(SortColumn) : c.vals[1] < c.vals[Len(c.vals)]
    /\ MaxValue(readers[1]) = MinValue(readers[2])
    /\ \E s \in 1..Len(readers) :
         /\ LiveVals(readers[s]) # {}
         /\ \/ MaxValue(readers[s]) \notin LiveVals(readers[s])
            \/ MinValue(readers[s]) \notin LiveVals(readers[s])

FastFieldStageEnded == pc \in {"fastfields", "stored", "closed", "aborted"}

\* the columns of kind "vals" written for a field
ValsColumns(field) ==
    {c \in Range(fast_out) : c.field = field /\ c.kind = "vals"}

NoLiveSingleValue == \A s \in 1..Len(readers) : NumDocs(readers[s]) = 0

NoLiveMultiValue ==
    \A s \in 1..Len(readers) : \A d \in Range(DocIdsAlive(readers[s])) :
        MultiVals(readers[s], d) = <<>>

\* C17: for the single-valued and the multi-valued numeric fast field,
\* when there are no readers or no live value of the field, the merge of
\* the field completes without aborting and its column is opened with
\* (min, max) = (0, 0).
C17_EmptyMinMax ==
    FastFieldStageEnded =>
        /\ NoLiveSingleValue =>
              /\ pc # "aborted"
              /\ \E c \in ValsColumns(SortField) : c.min = 0 /\ c.max = 0
        /\ NoLiveMultiValue =>
              /\ pc # "aborted"
              /\ \E c \in ValsColumns(MultiField) : c.min = 0 /\ c.max = 0

\* C18 as stated: every value written to the values column of the facet
\* fast field is strictly less than max_new_term_ord, the upper bound the
\* column was opened with.
C18_StrictlyBelowMax ==
    AfterFastFields =>
        \A c \in ValsColumns(FacetField) :
            \A n \in 1..Len(c.vals) : c.vals[n] < c.max

\* C18, amended: every value written to the values column of the facet
\* fast field is less than or equal to max_new_term_ord, the upper bound
\* computed by max_term_ord and handed to the column writer.
C18_AtMostMax ==
    AfterFastFields =>
        \A c \in ValsColumns(FacetField) :
            \A n \in 1..Len(c.vals) : c.vals[n] <= c.max

C18_Witness ==
    /\ AfterFastFields
    /\ Len(readers) >= 2
    /\ \E c \in ValsColumns(FacetField) :
         /\ c.max > 0
         /\ \E n \in 1..Len(c.vals) : c.vals[n] = c.max
         /\ \E n \in 1..Len(c.vals) : c.vals[n] < c.max
         /\ c.max \notin Range(term_ord_mappings[1])

\* the new_field calls of the postings serializer
NewFieldEvents == {e \in Range(postings_log) : e.op = "new_field"}

\* what a reader contributes to the token count of a field: the stored
\* count without deletes, else the decoded fieldnorms of its live documents
TokensOf(seg, field) ==
    IF HasDeletes(seg)
       THEN SumSeq([k \in 1..NumDocs(seg) |->
                IdToFieldnorm(FieldnormId(seg, field, DocIdsAlive(seg)[k]))])
       ELSE StoredTotalNumTokens(seg, field)

\* C19: for every indexed field the total_num_tokens handed to new_field
\* is the sum of the counts stored in the segments when none has deletes;
\* a segment with deletes contributes the sum over its live documents of
\* id_to_fieldnorm(fieldnorm_id(doc)).
C19_TotalNumTokens ==
    AfterPostings =>
        /\ {e.field : e \in NewFieldEvents} = Range(IndexedFields)
        /\ \A e \in NewFieldEvents :
             /\ e.n = SumSeq([s \in 1..Len(readers) |-> TokensOf(readers[s], e.field)])
             /\ (\A s \in 1..Len(segments) : ~HasDeletes(segments[s])) =>
                   e.n = SumSeq([s \in 1..Len(segments) |->
                                   StoredTotalNumTokens(segments[s], e.field)])

C19_Witness ==
    /\ AfterPostings
    /\ Len(readers) >= 2
    /\ \E s, t \in 1..Len(readers) :
         /\ ~HasDeletes(readers[s])
         /\ StoredTotalNumTokens(readers[s], TextField) > 0
         /\ HasDeletes(readers[t])
         /\ TokensOf(readers[t], TextField) < StoredTotalNumTokens(readers[t], TextField)

\* the doc ids handed to write_doc for a term of a field, in call order
WrittenDocs(field, t) ==
    LET evs == SelectSeq(postings_log,
                   LAMBDA e : e.op = "write_doc" /\ e.field = field /\ e.term = t)
    IN  [i \in 1..Len(evs) |-> evs[i].doc]

\* the columns written for a field, by kind
ColumnsOf(field, kind) ==
    SelectSeq(fast_out, LAMBDA c : c.field = field /\ c.kind = kind)

\* the running offsets of a multi-valued column of the segment
RECURSIVE Offsets(_, _, _)
Offsets(seg, Vals(_, _), d) ==
    IF d = 0 THEN <<0>>
    ELSE LET prev == Offsets(seg, Vals, d - 1)
         IN  Append(prev, prev[Len(prev)] + Len(Vals(seg, d - 1)))

SingleSegmentMerged ==
    /\ Len(segments) = 1
    /\ ~HasDeletes(segments[1])
    /\ pc = "closed"

ModeDecided == pc = "mapped"

\* every consecutive pair of readers is disjoint and in order on the sort
\* value
ConsecutivePairsInOrder ==
    \A i \in 1..(Len(readers) - 1) :
        \/ sort_by = "asc" /\ \A d \in 1..MaxDocOf(readers[i]) :
                                \A e \in 1..MaxDocOf(readers[i + 1]) :
                  readers[i].docs[d].val <= readers[i + 1].docs[e].val
        \/ sort_by = "desc" /\ \A d \in 1..MaxDocOf(readers[i]) :
                                 \A e \in 1..MaxDocOf(readers[i + 1]) :
                  readers[i].docs[d].val >= readers[i + 1].docs[e].val

\* C21: write builds no doc id mapping iff no sort field is configured or
\* every consecutive pair of readers satisfies max_i <= min_i+1 (ascending)
\* or min_i >= max_i+1 (descending); otherwise it builds a mapping.
C21_StackingIff ==
    ModeDecided =>
        (~doc_id_mapping.is_some) <=> (sort_by = "none" \/ ConsecutivePairsInOrder)

C21_Witness ==
    /\ ModeDecided
    /\ sort_by = "desc"
    /\ ~doc_id_mapping.is_some
    /\ Len(readers) >= 3
    /\ MinValue(readers[1]) = MaxValue(readers[2])
    /\ MinValue(readers[2]) > MaxValue(readers[3])

\* the store of the segment qualifies for block stacking
Stackable(seg) ==
    /\ \A d \in 0..(MaxDocOf(seg) - 1) : IsAlive(seg, d)
    /\ seg.checkpoints >= 6
    /\ seg.compressor = WriterCompressor

\* the store calls the claim expects for a segment
ExpectedStoreCalls(seg) ==
    IF Stackable(seg)
       THEN <<[op |-> "stack",
               payloads |-> [d \in 1..MaxDocOf(seg) |-> StoredPayload(seg, d - 1)]]>>
       ELSE LET alive == DocIdsAlive(seg)
            IN  [k \in 1..Len(alive) |->
                    [op |-> "store_bytes", payloads |-> <<StoredPayload(seg, alive[k])>>]]

\* C22: in stacking mode write_storable_fields block-stacks a segment iff
\* it has no deleted documents, at least 6 block checkpoints and the
\* compressor of the writer; otherwise it copies the payload of every live
\* document with store_bytes, in ascending old doc id.
C22_BlockStackIff ==
    (AfterStore /\ ~doc_id_mapping.is_some) =>
        store_out = FlattenSeq([s \in 1..Len(readers) |-> ExpectedStoreCalls(readers[s])])

C22_Witness ==
    /\ AfterStore /\ ~doc_id_mapping.is_some
    /\ Len(readers) >= 2
    /\ \E i, j \in 1..Len(store_out) :
         /\ store_out[i].op = "stack"
         /\ store_out[j].op = "store_bytes"
    /\ \E s \in 1..Len(readers) :
         readers[s].checkpoints >= 6 /\ readers[s].compressor = WriterCompressor

\* write_postings has just returned / write_fast_fields has just returned
\* or aborted
PostingsWritten == pc = "postings"
FastFieldsWritten == pc \in {"fastfields", "aborted"}

\* the write_doc calls of the postings serializer, by index in the log
WriteDocEvents == {i \in 1..Len(postings_log) : postings_log[i].op = "write_doc"}

\* the source document of new doc id n: its entry in the mapping, or in the
\* stacking order when there is none
SourceOf(n) == SourceDocs(readers, doc_id_mapping)[n + 1]

\* the absolute positions, in the source segment, of the posting written by
\* call i
SourcePositions(i) ==
    LET e == SourceOf(postings_log[i].doc)
    IN  PostingPositions(readers[e.ord + 1], postings_log[i].field,
                         postings_log[i].term, e.doc)

\* C23: in stacking mode the positions handed to write_doc are the deltas
\* p_0 - 0, p_1 - p_0, ... of the absolute positions of the source posting:
\* the running position restarts at 0 for each document and the slice has
\* as many entries as the position list, none of them left over from an
\* earlier call.
C23_StackingDeltas ==
    (PostingsWritten /\ ~doc_id_mapping.is_some) =>
        \A i \in WriteDocEvents :
            LET p == SourcePositions(i)
            IN  postings_log[i].pos =
                    [k \in 1..Len(p) |-> p[k] - (IF k = 1 THEN 0 ELSE p[k - 1])]

C23_Witness ==
    /\ PostingsWritten /\ ~doc_id_mapping.is_some
    /\ \E i, j \in WriteDocEvents :
         /\ i < j
         /\ postings_log[i].field = TextField /\ postings_log[j].field = TextField
         /\ Len(postings_log[i].pos) = 2
         /\ Len(postings_log[j].pos) = 1
         /\ postings_log[i].pos[1] > 0

\* C24 as stated: every position delta handed to write_doc is strictly
\* positive, the absolute positions of the posting being strictly ascending
\* from any value >= 0.
C24_DeltasPositive ==
    PostingsWritten =>
        \A i \in WriteDocEvents :
            \A k \in 1..Len(postings_log[i].pos) : postings_log[i].pos[k] > 0

\* C24, amended: every position delta handed to write_doc is strictly
\* positive, except the first delta of a posting whose absolute positions
\* start at 0, which is 0.
C24_DeltasPositiveAfterZero ==
    PostingsWritten =>
        \A i \in WriteDocEvents :
            \A k \in 1..Len(postings_log[i].pos) :
                IF k = 1 /\ SourcePositions(i)[1] = 0
                   THEN postings_log[i].pos[k] = 0
                   ELSE postings_log[i].pos[k] > 0

C24_Witness ==
    /\ PostingsWritten
    /\ \E i, j \in WriteDocEvents :
         /\ Len(postings_log[i].pos) = 2
         /\ postings_log[i].pos[1] = 0
         /\ Len(postings_log[j].pos) = 2
         /\ postings_log[j].pos[1] > 0

\* the fields written as an offsets column and a values column
OneToManyFields == {FacetField, MultiField, BytesField}

\* the number of values (bytes) of a document in such a field
ValueCount(field, seg, d) ==
    CASE field = FacetField -> Len(FacetVals(seg, d))
      [] field = MultiField -> Len(MultiVals(seg, d))
      [] field = BytesField -> Len(GetBytes(seg, d))

\* the columns of a field that hold its values
ValueColumns(field) ==
    {c \in Range(fast_out) : c.field = field /\ c.kind \in {"vals", "bytes"}}

NewFieldAt(field) ==
    CHOOSE e \in Range(postings_log) : e.op = "new_field" /\ e.field = field

\* the serializer protocol, followed call by call: st holds the open field
\* and term (0 when none), the last field and term closed, and the number
\* of write_doc calls of the open term
RECURSIVE FollowsProtocol(_, _, _)
FollowsProtocol(log, i, st) ==
    IF i > Len(log) THEN st.field = 0
    ELSE LET e == log[i] IN
         CASE e.op = "new_field" ->
                /\ st.field = 0
                /\ e.field > st.last_field
                /\ FollowsProtocol(log, i + 1,
                       [st EXCEPT !.field = e.field, !.last_term = 0])
           [] e.op = "new_term" ->
                /\ st.field = e.field /\ st.term = 0
                /\ e.term > st.last_term
                /\ FollowsProtocol(log, i + 1, [st EXCEPT !.term = e.term, !.docs = 0])
           [] e.op = "write_doc" ->
                /\ st.field = e.field /\ st.term = e.term
                /\ FollowsProtocol(log, i + 1, [st EXCEPT !.docs = @ + 1])
           [] e.op = "close_term" ->
                /\ st.field = e.field /\ st.term = e.term
                /\ st.docs >= 1
                /\ FollowsProtocol(log, i + 1,
                       [st EXCEPT !.term = 0, !.last_term = e.term])
           [] e.op = "close" ->
                /\ st.field = e.field /\ st.term = 0
                /\ FollowsProtocol(log, i + 1,
                       [st EXCEPT !.field = 0, !.last_field = e.field])
           [] OTHER -> FALSE

\* C26: for every field the calls to the postings serializer are new_field,
\* then for each surviving term in strictly ascending order one new_term,
\* its write_doc calls and one close_term, then one close of the field; no
\* write_doc outside an open term, no term opened twice, fields in schema
\* order.
C26_SerializerProtocol ==
    PostingsWritten =>
        /\ FollowsProtocol(postings_log, 1,
               [field |-> 0, last_field |-> 0, term |-> 0, last_term |-> 0, docs |-> 0])
        /\ SelectSeq(postings_log, LAMBDA e : e.op = "new_field") =
               [f \in 1..Len(IndexedFields) |->
                   NewFieldAt(IndexedFields[f])]
        /\ \A f \in 1..Len(IndexedFields) : \A t \in Terms :
             LiveTerm(IndexedFields[f], t) => t \in EmittedTerms(IndexedFields[f])

C26_Witness ==
    /\ PostingsWritten
    /\ \A f \in 1..Len(IndexedFields) :
         Cardinality(EmittedTerms(IndexedFields[f])) >= 2
    /\ \E t \in Terms : Len(WrittenDocs(TextField, t)) >= 2

\* C27: after the postings pass of the facet field, for every segment
\* ordinal s and old term ordinal o of s the mapping entry [s][o] is the
\* ordinal new_term returned for the term when the term survived, also
\* when every document of s holding it is deleted, and 0 when it did not;
\* the later stages leave the mapping as it is.
C27_TermOrdinalMapping ==
    AfterPostings =>
        /\ Len(term_ord_mappings) = Len(readers)
        /\ \A s \in 1..Len(readers) :
             LET dict == TermDict(readers[s], FacetField)
             IN  /\ Len(term_ord_mappings[s]) = Len(dict)
                 /\ \A o \in 0..(Len(dict) - 1) :
                      term_ord_mappings[s][o + 1] =
                          IF dict[o + 1] \in EmittedTerms(FacetField)
                             THEN NewTermOrd(FacetField, dict[o + 1])
                             ELSE 0

C27_Witness ==
    /\ pc = "closed"
    /\ \E s \in 1..Len(readers) : \E t \in Terms :
         /\ t \in Range(TermDict(readers[s], FacetField))
         /\ SegmentDocFreq(readers[s], FacetField, t) = 0
         /\ t \in EmittedTerms(FacetField)
         /\ NewTermOrd(FacetField, t) > 0

\* the entries of new doc id n in a field written as offsets and values
ColumnSlice(field, kind, n) ==
    LET idx == ColumnsOf(field, "idx")[1].vals
    IN  SubSeq(ColumnsOf(field, kind)[1].vals, idx[n + 1] + 1, idx[n + 2])

\* the pairs (segment ordinal + 1, old doc id) that the postings remap to
\* new doc id n
RemappedTo(n) ==
    {p \in UNION {{s} \X (0..(MaxDocOf(readers[s]) - 1)) : s \in 1..Len(readers)} :
        merged_doc_id_map[p[1]][p[2] + 1] = n}

\* C28: for every new doc id n all components hold the data of one source
\* document, the pair (segment, old doc id) that the postings remap to n:
\* the fieldnorms, the single-valued, multi-valued, facet and bytes fast
\* field entries and the stored payload, in stacking mode with deletes and
\* in sorted mode.
C28_ComponentsAligned ==
    pc = "closed" =>
        \A n \in 0..(max_doc - 1) :
            /\ Cardinality(RemappedTo(n)) = 1
            /\ \A p \in RemappedTo(n) :
                 LET seg == readers[p[1]]
                     d == p[2]
                 IN  /\ IsAlive(seg, d)
                     /\ \A f \in 1..Len(FieldsWithFieldnorm) :
                          fieldnorms_out[f][n + 1] =
                              FieldnormId(seg, FieldsWithFieldnorm[f], d)
                     /\ ColumnsOf(SortField, "vals")[1].vals[n + 1] = FastVal(seg, d)
                     /\ ColumnSlice(MultiField, "vals", n) = MultiVals(seg, d)
                     /\ ColumnSlice(BytesField, "bytes", n) = GetBytes(seg, d)
                     /\ ColumnSlice(FacetField, "vals", n) =
                            [j \in 1..Len(FacetVals(seg, d)) |->
                                term_ord_mappings[p[1]][FacetVals(seg, d)[j] + 1]]
                     /\ StoredDocs(store_out)[n + 1] = StoredPayload(seg, d)

C28_Witness ==
    /\ pc = "closed"
    /\ ~doc_id_mapping.is_some
    /\ Len(readers) >= 2
    /\ ~IsAlive(readers[1], 0)
    /\ max_doc >= 2
    /\ \E n \in 0..(max_doc - 1) : fieldnorms_out[1][n + 1] > 0

\* the values columns of the numeric fast fields
NumericColumns == ValsColumns(SortField) \cup ValsColumns(MultiField)

\* C29: every value added to a single-valued or multi-valued numeric fast
\* field column lies in the interval [min_value, max_value] the column was
\* opened with, whatever segments have a delete bitset.
C29_ValuesWithinBounds ==
    FastFieldsWritten =>
        \A c \in NumericColumns :
            \A n \in 1..Len(c.vals) : c.min <= c.vals[n] /\ c.vals[n] <= c.max

C29_Witness ==
    /\ FastFieldsWritten
    /\ ValsColumns(MultiField) # {}
    /\ \E c \in ValsColumns(SortField) :
         /\ Len(c.vals) >= 2
         /\ \E s, t \in 1..Len(readers) :
              /\ HasDeletes(readers[s])
              /\ MaxValue(readers[s]) > c.max
              /\ ~HasDeletes(readers[t])

\* C30: for every surviving term the total_doc_freq handed to new_term is
\* the number of write_doc calls made for the term before close_term, in
\* both modes; in sorted mode the buffer is empty when a term starts, so
\* every document written under a term holds the term and is written once.
C30_DocFreqMatchesWrites ==
    PostingsWritten =>
        /\ \A i \in 1..Len(postings_log) :
             postings_log[i].op = "new_term" =>
                 postings_log[i].n =
                     Len(WrittenDocs(postings_log[i].field, postings_log[i].term))
        /\ \A i \in WriteDocEvents :
             LET e == SourceOf(postings_log[i].doc)
             IN  DocHasTerm(readers[e.ord + 1].docs[e.doc + 1],
                            postings_log[i].field, postings_log[i].term)
        /\ \A i, j \in WriteDocEvents :
             (/\ i # j
              /\ postings_log[i].field = postings_log[j].field
              /\ postings_log[i].term = postings_log[j].term)
                 => postings_log[i].doc # postings_log[j].doc

C30_Witness ==
    /\ PostingsWritten
    /\ doc_id_mapping.is_some
    /\ max_doc >= 3
    /\ Cardinality(EmittedTerms(TextField)) = 2
    /\ \E t \in Terms : \E n \in Range(WrittenDocs(TextField, t)) :
         SourceOf(n).ord > 0 /\ n < max_doc - 1

====
